---------------------------- MODULE Spec2Model ----------------------------
(***************************************************************************)
(* A model of the ArmOS AArch64 interpreter core (arm64.hxx / arm64.cxx).  *)
(*                                                                         *)
(* 64-bit and 32-bit machine words are modelled at their real width as the *)
(* set of their one-bits (a subset of 0..63), because the integers of TLC   *)
(* are narrower than a machine word.  An instruction word is the           *)
(* set of one-bits of the 32-bit encoding and is decoded with opbits()     *)
(* exactly as the dispatch switch decodes it.                              *)
(*                                                                         *)
(* arm64_hard_termination never returns (the host exits the process), and  *)
(* a host crash ends the process too: both are terminal states, and        *)
(* statements about what run() does next are statements about the          *)
(* executions that are still alive.                                        *)
(***************************************************************************)
EXTENDS Integers, FiniteSets, Sequences, TLC

\* ------------------------------------------------------------------ bounds
\* the largest max_cycles the host passes to run()
MaxBudget == 3
\* loop iterations explored within one run() call
MaxIter == 6
\* run() calls explored
MaxRuns == 2
\* small operand magnitudes around each boundary value of the operand domains
MaxSmall == 1

\* ------------------------------------------------------- bit-vector helpers
Pow2(n) == 2 ^ n

\* the one-bits of a natural number below 2^31
FromNat(n) == { i \in 0..30 : (n \div Pow2(i)) % 2 = 1 }

RECURSIVE ToNatFrom(_, _)
ToNatFrom(S, i) == IF i > 30 THEN 0
                   ELSE (IF i \in S THEN Pow2(i) ELSE 0) + ToNatFrom(S, i + 1)

\* the natural number of a bit set that fits below 2^31
ToNat(S) == ToNatFrom(S, 0)

Zero == {}
Ones(w) == 0 .. (w - 1)
Trunc(x, w) == x \cap Ones(w)
Shl(x, k, w) == { i + k : i \in x } \cap Ones(w)
Shr(x, k) == { i - k : i \in { j \in x : j >= k } }
Not(x, w) == Ones(w) \ x
Xor(x, y) == (x \ y) \cup (y \ x)
MaxOf(S) == CHOOSE m \in S : \A k \in S : k <= m

\* unsigned comparison
ULT(x, y) == LET d == Xor(x, y) IN d # {} /\ MaxOf(d) \in y
ULE(x, y) == ~ ULT(y, x)

\* signed comparison at width w
SLT(x, y, w) == IF ((w - 1) \in x) # ((w - 1) \in y) THEN (w - 1) \in x ELSE ULT(x, y)

RECURSIVE AddBits(_, _, _, _, _)
AddBits(x, y, c, i, w) ==
    IF i = w THEN (IF c THEN {w} ELSE {})
    ELSE LET a == i \in x
             b == i \in y
             s == (a # b) # c
             co == (a /\ b) \/ (c /\ (a \/ b))
         IN (IF s THEN {i} ELSE {}) \cup AddBits(x, y, co, i + 1, w)

\* the (w+1)-bit sum x + y + c: bit w is the carry out
AddWide(x, y, c, w) == AddBits(x, y, c, 0, w)
\* C unsigned arithmetic at width w
Add(x, y, w) == Trunc(AddWide(Trunc(x, w), Trunc(y, w), FALSE, w), w)
Sub(x, y, w) == Trunc(AddWide(Trunc(x, w), Not(y, w), TRUE, w), w)
Neg(x, w) == Sub(Zero, x, w)

RECURSIVE UDivStep(_, _, _, _, _)
UDivStep(n, d, i, r, q) ==
    IF i < 0 THEN q
    ELSE LET r1 == Shl(r, 1, 66) \cup (IF i \in n THEN {0} ELSE {})
             ge == ULE(d, r1)
         IN UDivStep(n, d, i - 1, IF ge THEN Sub(r1, d, 66) ELSE r1,
                     IF ge THEN q \cup {i} ELSE q)

\* C unsigned division, d # 0
UDiv(n, d, w) == UDivStep(Trunc(n, w), Trunc(d, w), w - 1, Zero, Zero)

\* C signed division truncating toward zero, d # 0 and not MIN / -1
SDiv(n, d, w) ==
    LET nn == (w - 1) \in n
        dn == (w - 1) \in d
        q == UDiv(IF nn THEN Neg(n, w) ELSE n, IF dn THEN Neg(d, w) ELSE d, w)
    IN IF nn # dn THEN Neg(q, w) ELSE q

\* --------------------------------------------------------- program constants
stateTraceInstructions == 1
stateEndEmulation == 2

\* lowest valid guest address (base_address of the constructor): 0x10000
BaseAddr == {16}
\* memory.size() and stack_commit, in 16-byte blocks; the code sits at BaseAddr and
\* the last block, above top_of_stack, holds argc/argv
MemBlocks == 5
StackBlocks == 1
MemSize == 16 * MemBlocks
MemSizeBV == FromNat(MemSize)
\* what a host byte outside the guest buffer may hold when the core reads it
OobFill == {0, 255}

\* --------------------------------------------------------------- the state
VARIABLES
    regs,           \* x0..x31, regs[31] is sp
    pc,
    fN, fZ, fC, fV,
    tpidr_el0,
    vregs,          \* v0 .. v31, 128 bits each
    cycles_so_far,
    mem,            \* the borrowed guest buffer, byte by byte
    g_State,        \* the process-wide control word
    checked,        \* TRUE for a build without NDEBUG
    mode,           \* "idle" (outside run), "running", "fatal", "crashed", "hung",
                    \* "unmodelled"
    start_cycles,
    target_cycles,
    retval,         \* what the last run() call returned
    iter,           \* loop iterations begun in the current run() call
    executed,       \* instructions executed in the current run() call
    runs,           \* run() calls made
    last,           \* what the last loop iteration did
    fin,            \* the operands of a helper function applied on its own
    fout            \* its result

vars == << regs, pc, fN, fZ, fC, fV, tpidr_el0, vregs, cycles_so_far, mem, g_State, checked,
           mode, start_cycles, target_cycles, retval, iter, executed, runs, last, fin, fout >>

\* g_State & bit, g_State |= bit, g_State &= ~bit
TestBit(g, bit) == (g \div bit) % 2 = 1
SetBit(g, bit) == IF TestBit(g, bit) THEN g ELSE g + bit
\* a faulty clear that leaves the bit as it is
ClearBit_Keeps(g, bit) == g
ClearBit(g, bit) == IF TestBit(g, bit) THEN g - bit ELSE g

\* The machine as the handlers see it.  Besides the fields of struct Arm64 the
\* record carries what one loop iteration did:
\*   op      the instruction word fetched (the member op)
\*   out     "break" (falls to pc += 4; cycles_so_far++), "continue" (a taken
\*           branch), "ended" (the break out of the loop on end-emulation),
\*           "fatal" (arm64_hard_termination), "crash" (the host process died),
\*           "unmodelled" (an encoding outside this model)
\*   fetched the word at pc was read from guest memory
\*   enc     the implemented encoding the word matched, "none" when it matched none
\*   zrd     the encoding has a destination field in zero-register context, and it is 31
\*   ea      the addressing of a load or store (see NoEA)
\*   wb31    the encoding writes x[31] in SP context (base write-back, <Xd|SP>)
\*   used31  the values read for source fields equal to 31 in zero-register context
\*   oob     a host byte outside the guest buffer was read or written
\*   svcs    calls of arm64_invoke_svc
\*   vd, vlen  the vector register the instruction wrote a result of fewer than 16
\*           bytes to, and the number of bytes of the result (vlen = 0: no such write)
\* what an instruction that addresses memory through base register n did: the form
\* its encoding names ("post", "pre", or "offset" for every form without writeback),
\* the base x[n] before it, its offset, the address of its first access, and whether
\* it loaded into register n itself
NoEA == [ form |-> "none", n |-> 0, base |-> Zero, off |-> Zero, addr |-> Zero, loads_n |-> FALSE ]
EA(form, n, base, off, addr, loads_n) ==
    [ form |-> form, n |-> n, base |-> base, off |-> off, addr |-> addr, loads_n |-> loads_n ]

Machine ==
    [ regs |-> regs, pc |-> pc, fN |-> fN, fZ |-> fZ, fC |-> fC, fV |-> fV,
      tpidr_el0 |-> tpidr_el0, vregs |-> vregs, mem |-> mem, g_State |-> g_State, checked |-> checked,
      op |-> Zero, out |-> "break", enc |-> "none", zrd |-> FALSE, wb31 |-> FALSE,
      used31 |-> {}, oob |-> FALSE, svcs |-> 0, fetched |-> FALSE, ea |-> NoEA,
      vd |-> 0, vlen |-> 0, traced |-> FALSE ]

Alive(s) == s.out \in {"break", "continue"}

\* arm64_hard_termination: the host shows the error and exits
hard_termination(s) == [s EXCEPT !.out = "fatal"]
unhandled(s) == hard_termination(s)

Enc(s, name) == [s EXCEPT !.enc = name]
SetReg(s, r, v) == [s EXCEPT !.regs[r] = v]

\* ------------------------------------------------------------ memory access
\* getmem: the host pointer membase + address lies in [mem, beyond) exactly when
\* address - base, as an unsigned 64-bit number, is below mem_size
InBuffer(off) == ULT(off, MemSizeBV)
getoffset(a) == Sub(a, BaseAddr, 64)
is_address_valid(a) == InBuffer(getoffset(a))

\* getmem of a checked build terminates on a first byte outside the buffer
getmem(s, a) == IF s.checked /\ ~ is_address_valid(a) THEN hard_termination(s) ELSE s

ByteBits(b) == { i \in 0..7 : (b \div Pow2(i)) % 2 = 1 }

\* the bytes of a w-byte access at guest address a that lie outside the buffer
Outside(a, w) == { k \in 0..(w - 1) : ~ InBuffer(Add(getoffset(a), FromNat(k), 64)) }

\* the little-endian value of w bytes at a, bytes outside the buffer reading as fill
ReadBytes(m, a, w, fill) ==
    UNION { LET off == Add(getoffset(a), FromNat(k), 64)
                b == IF InBuffer(off) THEN m[ToNat(off)] ELSE fill
            IN { 8 * k + i : i \in ByteBits(b) } : k \in 0..(w - 1) }

\* getui8/16/32/64: the outcomes of * (uintN_t *) getmem( o ), each with the value read
Load(s, a, w) ==
    LET g == getmem(s, a)
    IN IF ~ Alive(g) THEN { [st |-> g, val |-> Zero] }
       ELSE IF Outside(a, w) = {} THEN { [st |-> s, val |-> ReadBytes(s.mem, a, w, 0)] }
       ELSE { [st |-> [s EXCEPT !.oob = TRUE], val |-> ReadBytes(s.mem, a, w, f)] : f \in OobFill }
            \cup { [st |-> [s EXCEPT !.oob = TRUE, !.out = "crash"], val |-> Zero] }

\* the buffer after w bytes of v are written at a; bytes outside it land in host memory
WriteBytes(m, a, w, v) ==
    LET inside == { k \in 0..(w - 1) : InBuffer(Add(getoffset(a), FromNat(k), 64)) }
        at == [ k \in inside |-> ToNat(Add(getoffset(a), FromNat(k), 64)) ]
    IN [ o \in DOMAIN m |->
           IF \E k \in inside : at[k] = o
           THEN LET k == CHOOSE k \in inside : at[k] = o
                IN ToNat({ i \in 0..7 : (8 * k + i) \in v })
           ELSE m[o] ]

\* setui8/16/32/64: the outcomes of * (uintN_t *) getmem( o ) = val
Store(s, a, w, v) ==
    LET g == getmem(s, a)
    IN IF ~ Alive(g) THEN { g }
       ELSE IF Outside(a, w) = {} THEN { [s EXCEPT !.mem = WriteBytes(s.mem, a, w, v)] }
       ELSE { [s EXCEPT !.oob = TRUE, !.mem = WriteBytes(s.mem, a, w, v)],
              [s EXCEPT !.oob = TRUE, !.out = "crash"] }

\* ------------------------------------------------------------ C helpers
val_reg_or_zr(s, r) == IF r = 31 THEN Zero ELSE s.regs[r]

\* note the value read for a source field that is 31 in zero-register context
Use31(s, r, v) == IF r = 31 THEN [s EXCEPT !.used31 = @ \cup {v}] ELSE s

\* get_bits( x, lowbit, len )
get_bits(x, lowbit, len) == Trunc(Shr(x, lowbit), len)

\* sign_extend( x, high_bit ): x &= (1 << (high_bit+1)) - 1; (x ^ m) - m with m = 1 << high_bit
sign_extend(x, high_bit) == Sub(Xor(Trunc(x, high_bit + 1), {high_bit}), {high_bit}, 64)

\* sign_extend32: the same in 32-bit arithmetic
sign_extend32(x, high_bit) == Sub(Xor(Trunc(x, high_bit + 1), {high_bit}), {high_bit}, 32)

\* the flags part of a machine or of an addition
Flags(r) == << r.fN, r.fZ, r.fC, r.fV >>
SetFlags(s, r) == [s EXCEPT !.fN = r.fN, !.fZ = r.fZ, !.fC = r.fC, !.fV = r.fV]

\* add_with_carry64 without the carry_carry term of u_hi
add_with_carry64_NoCarryCarry(x, y, carry) ==
    LET cin == IF carry THEN {0} ELSE Zero
        result == Trunc(AddWide(x, y, carry, 64), 64)
        uy == Add(y, cin, 64)
        u_low == Add(Trunc(x, 32), Trunc(uy, 32), 64)
        u_low_carry == Shr(u_low, 32)
        u_hi == Add(Add(Shr(x, 32), Shr(uy, 32), 64), u_low_carry, 64)
        u_sum == Shl(u_hi, 32, 64) \cup Trunc(u_low, 32)
        xneg == 63 \in x
        yneg == 63 \in y
    IN [ result |-> result,
         fN |-> 63 \in result,
         fZ |-> result = Zero,
         fC |-> (result # u_sum) \/ (Shr(u_hi, 32) # Zero),
         fV |-> \/ (~ xneg /\ ~ yneg) /\ (SLT(result, x, 64) \/ SLT(result, y, 64))
                \/ (xneg /\ yneg) /\ (SLT(x, result, 64) \/ SLT(y, result, 64)) ]

\* add_with_carry64: the result and the flags it computes when setflags
add_with_carry64(x, y, carry) ==
    LET cin == IF carry THEN {0} ELSE Zero
        result == Trunc(AddWide(x, y, carry, 64), 64)
        uy == Add(y, cin, 64)
        u_low == Add(Trunc(x, 32), Trunc(uy, 32), 64)
        u_low_carry == Shr(u_low, 32)
        carry_carry == IF y = Ones(64) /\ carry THEN {0} ELSE Zero
        u_hi == Add(Add(Add(Shr(x, 32), Shr(uy, 32), 64), u_low_carry, 64), carry_carry, 64)
        u_sum == Shl(u_hi, 32, 64) \cup Trunc(u_low, 32)
        xneg == 63 \in x
        yneg == 63 \in y
    IN [ result |-> result,
         fN |-> 63 \in result,
         fZ |-> result = Zero,
         fC |-> (result # u_sum) \/ (Shr(u_hi, 32) # Zero),
         fV |-> \/ (~ xneg /\ ~ yneg) /\ (SLT(result, x, 64) \/ SLT(result, y, 64))
                \/ (xneg /\ yneg) /\ (SLT(x, result, 64) \/ SLT(y, result, 64)) ]

\* sub64( x, y ) = add_with_carry64( x, ~y, true )
sub64(x, y) == add_with_carry64(x, Not(y, 64), TRUE)

\* add_with_carry32: flags as the Arm pseudocode computes them
add_with_carry32(x, y, carry) ==
    LET cin == IF carry THEN {0} ELSE Zero
        unsigned_sum == AddWide(Trunc(x, 32), Trunc(y, 32), carry, 32)
        result == Trunc(unsigned_sum, 32)
        signed_sum == Add(Add(sign_extend(x, 31), sign_extend(y, 31), 64), cin, 64)
    IN [ result |-> result,
         fN |-> 31 \in result,
         fZ |-> result = Zero,
         fC |-> result # unsigned_sum,
         fV |-> sign_extend(result, 31) # signed_sum ]

sub32(x, y) == add_with_carry32(x, Not(Trunc(y, 32), 32), TRUE)

\* a C shift of a w-bit value by a count of w or more is undefined: the hosts either
\* use the count modulo w or shift everything out
ShiftLeft(val, amount, w) ==
    IF amount < w THEN { Shl(val, amount, w) } ELSE { Shl(val, amount % w, w), Zero }
ShiftRight(val, amount, w) ==
    IF amount < w THEN { Shr(val, amount) } ELSE { Shr(val, amount % w), Zero }
Asr(val, amount, w) ==
    Shr(val, amount) \cup (IF (w - 1) \in val THEN (w - amount) .. (w - 1) ELSE {})
ShiftRightSigned(val, amount, w) ==
    IF amount < w THEN { Asr(val, amount, w) }
    ELSE { Asr(val, amount % w, w), IF (w - 1) \in val THEN Ones(w) ELSE Zero }

\* the shifts of shift_reg64 / shift_reg32 on a w-bit value, amount already masked
ShiftVal(val, shift_type, amount, w) ==
    IF amount = 0 THEN { val }
    ELSE CASE shift_type = 0 -> ShiftLeft(val, amount, w)
           [] shift_type = 1 -> ShiftRight(val, amount, w)
           [] shift_type = 2 -> ShiftRightSigned(val, amount, w)
           [] OTHER -> { a \cup b : a \in ShiftRight(val, amount, w),
                                    b \in IF amount <= w THEN ShiftLeft(val, w - amount, w)
                                          ELSE { Zero, Shl(val, (2 * w - amount) % w, w) } }

\* shift_reg64( reg, shift_type, amount ): amount &= 0x7f
shift_reg64(s, reg, shift_type, amount) ==
    ShiftVal(IF reg = 31 THEN Zero ELSE s.regs[reg], shift_type, amount % 128, 64)

\* shift_reg32( reg, shift_type, amount ): amount &= 0x3f
shift_reg32(s, reg, shift_type, amount) ==
    ShiftVal(IF reg = 31 THEN Zero ELSE Trunc(s.regs[reg], 32), shift_type, amount % 64, 32)

\* check_conditional with HI taken as carry set alone
check_conditional_HiIsCarry(s, cond) ==
    LET chk == (cond \div 2) % 8
        met == CASE chk = 0 -> s.fZ
                 [] chk = 1 -> s.fC
                 [] chk = 2 -> s.fN
                 [] chk = 3 -> s.fV
                 [] chk = 4 -> s.fC
                 [] chk = 5 -> s.fN = s.fV
                 [] chk = 6 -> (s.fN = s.fV) /\ ~ s.fZ
                 [] OTHER -> TRUE
    IN IF chk = 7 THEN TRUE
       ELSE IF cond % 2 = 1 THEN ~ met ELSE met

\* check_conditional( cond )
check_conditional(s, cond) ==
    LET chk == (cond \div 2) % 8
        met == CASE chk = 0 -> s.fZ
                 [] chk = 1 -> s.fC
                 [] chk = 2 -> s.fN
                 [] chk = 3 -> s.fV
                 [] chk = 4 -> s.fC /\ ~ s.fZ
                 [] chk = 5 -> s.fN = s.fV
                 [] chk = 6 -> (s.fN = s.fV) /\ ~ s.fZ
                 [] OTHER -> TRUE
    IN IF chk = 7 THEN TRUE
       ELSE IF cond % 2 = 1 THEN ~ met ELSE met

\* set_flags_from_nzcv( nzcv )
set_flags_from_nzcv(s, nzcv) ==
    [s EXCEPT !.fN = (nzcv \div 8) % 2 = 1, !.fZ = (nzcv \div 4) % 2 = 1,
              !.fC = (nzcv \div 2) % 2 = 1, !.fV = nzcv % 2 = 1]

\* extend_reg( m, extend_type, shift )
extend_reg(s, m, extend_type, shift) ==
    LET x == IF m = 31 THEN Zero ELSE s.regs[m]
        e == CASE extend_type = 0 -> Trunc(x, 8)
               [] extend_type = 1 -> Trunc(x, 16)
               [] extend_type = 2 -> Trunc(x, 32)
               [] extend_type = 4 -> sign_extend(x, 7)
               [] extend_type = 5 -> sign_extend(x, 15)
               [] extend_type = 6 -> sign_extend(x, 31)
               [] OTHER -> x
    IN Shl(e, shift, 64)

\* ------------------------------------------------------------- the decoder
\* opbits( lowbit, len ) of the instruction word op
opbits(op, lowbit, len) == ToNat(get_bits(op, lowbit, len))

\* pc += offset; continue
BranchTo(s, target) == [s EXCEPT !.pc = target, !.out = "continue"]

\* case 0: UDF
case_00(s, op) ==
    IF opbits(op, 16, 8) = 0 THEN { hard_termination(Enc(s, "UDF")) } ELSE { unhandled(s) }

\* case 0x14 .. 0x17: b label
case_14(s, op) ==
    LET imm26 == sign_extend(Shl(get_bits(op, 0, 26), 2, 64), 27)
    IN { BranchTo(Enc(s, "B"), Add(s.pc, imm26, 64)) }

\* case 0x94 .. 0x97: bl offset
case_94(s, op) ==
    LET offset == sign_extend(Shl(get_bits(op, 0, 26), 2, 64), 27)
    IN { BranchTo(SetReg(Enc(s, "BL"), 30, Add(s.pc, {2}, 64)), Add(s.pc, offset, 64)) }

\* case 0x54: b.cond
case_54(s, op) ==
    LET cond == opbits(op, 0, 4)
        imm19 == sign_extend(Shl(get_bits(op, 5, 19), 2, 64), 20)
    IN IF check_conditional(s, cond)
       THEN { BranchTo(Enc(s, "B.cond"), Add(s.pc, imm19, 64)) }
       ELSE { Enc(s, "B.cond") }

\* case 0x34, 0x35, 0xb4, 0xb5: CBZ / CBNZ
case_34(s, op, hi8) ==
    LET t == opbits(op, 0, 5)
        v == val_reg_or_zr(s, t)
        val == IF (hi8 \div 128) % 2 = 0 THEN Trunc(v, 32) ELSE v
        zero_check == hi8 % 2 = 0
        imm19 == sign_extend(Shl(get_bits(op, 5, 19), 2, 64), 20)
        s1 == Use31(Enc(s, IF zero_check THEN "CBZ" ELSE "CBNZ"), t, v)
    IN IF zero_check = (val = Zero) THEN { BranchTo(s1, Add(s.pc, imm19, 64)) } ELSE { s1 }

\* case 0x36, 0x37, 0xb6, 0xb7: TBZ / TBNZ
case_36(s, op, hi8) ==
    LET b40 == opbits(op, 19, 5) + (IF (hi8 \div 128) % 2 = 1 THEN 32 ELSE 0)
        t == opbits(op, 0, 5)
        isset == b40 \in s.regs[t]
        zerocheck == hi8 % 2 = 0
        imm14 == sign_extend(Shl(get_bits(op, 5, 14), 2, 64), 15)
        s1 == Use31(Enc(s, IF zerocheck THEN "TBZ" ELSE "TBNZ"), t, s.regs[t])
    IN IF isset # zerocheck THEN { BranchTo(s1, Add(s.pc, imm14, 64)) } ELSE { s1 }

\* case 0xd6: BR / BLR / RET
case_d6(s, op) ==
    LET n == opbits(op, 5, 5)
        theop == opbits(op, 21, 2)
    IN IF opbits(op, 23, 1) # 0 THEN { unhandled(s) }
       ELSE IF opbits(op, 12, 9) # 496 THEN { unhandled(s) }
       ELSE IF opbits(op, 11, 1) # 0 \/ opbits(op, 10, 1) # 0 THEN { unhandled(s) }
       ELSE IF theop = 0 THEN { BranchTo(Enc(s, "BR"), s.regs[n]) }
       ELSE IF theop = 1
            THEN { SetReg(BranchTo(Enc(s, "BLR"), s.regs[n]), 30, Add(s.pc, {2}, 64)) }
       ELSE IF theop = 2 THEN { BranchTo(Enc(s, "RET"), s.regs[n]) }
       ELSE { unhandled(s) }

HiBit(hi8, mask) == (hi8 \div mask) % 2 = 1

\* case 0x0b, 0x2b, 0x4b, 0x6b, 0x8b, 0xab, 0xcb, 0xeb: ADD/ADDS/SUB/SUBS, shifted or
\* extended register.  The extended form names <Xd|SP> (without flags) and <Xn|SP>;
\* the shifted form names Xd, Xn and Xm in zero-register context.
case_0b(s, op, hi8) ==
    LET extended == opbits(op, 21, 1) = 1
        issub == HiBit(hi8, 64)
        setflags == HiBit(hi8, 32)
        xregs == HiBit(hi8, 128)
        m == opbits(op, 16, 5)
        n == opbits(op, 5, 5)
        d == opbits(op, 0, 5)
        nvalue == IF ~ extended /\ n = 31 THEN Zero ELSE s.regs[n]
        offsets == IF extended THEN { extend_reg(s, m, opbits(op, 13, 3), opbits(op, 10, 3)) }
                   ELSE IF xregs THEN shift_reg64(s, m, opbits(op, 22, 2), opbits(op, 10, 6))
                   ELSE shift_reg32(s, m, opbits(op, 22, 2), opbits(op, 10, 6))
        s1 == [ Use31(Use31(s, m, Zero), IF extended THEN 0 ELSE n, nvalue)
                EXCEPT !.enc = IF extended THEN "ADDSUB_ext" ELSE "ADDSUB_shift",
                       !.zrd = d = 31 /\ (~ extended \/ setflags),
                       !.wb31 = d = 31 /\ extended /\ ~ setflags ]
        Apply(offset) ==
            LET r == IF issub
                     THEN (IF xregs THEN sub64(nvalue, offset) ELSE sub32(nvalue, offset))
                     ELSE (IF xregs THEN add_with_carry64(nvalue, offset, FALSE)
                           ELSE add_with_carry32(nvalue, offset, FALSE))
                s2 == IF setflags THEN SetFlags(s1, r) ELSE s1
            IN IF ~ setflags \/ d # 31 THEN SetReg(s2, d, r.result) ELSE s2
    IN { Apply(offset) : offset \in offsets }

\* case 0x11, 0x51, 0x91, 0xd1: add / sub <xd|SP>, <xn|SP>, #imm
case_11(s, op, hi8) ==
    LET sf == opbits(op, 31, 1) # 0
        n == opbits(op, 5, 5)
        d == opbits(op, 0, 5)
        op1 == s.regs[n]
        op2 == Shl(get_bits(op, 10, 12), IF opbits(op, 22, 1) # 0 THEN 12 ELSE 0, 64)
        isadd == hi8 \in {145, 17}
        r == IF isadd
             THEN (IF sf THEN add_with_carry64(op1, op2, FALSE) ELSE add_with_carry32(op1, op2, FALSE))
             ELSE (IF sf THEN sub64(op1, op2) ELSE sub32(op1, op2))
    IN { [ SetReg(s, d, r.result) EXCEPT !.enc = "ADDSUB_imm", !.wb31 = d = 31 ] }

\* case 0x12, 0x92: MOVN ; AND (immediate)
case_12(s, op, hi8) ==
    LET d == opbits(op, 0, 5)
        hw == opbits(op, 21, 2) * 16
        inv == Not(Shl(get_bits(op, 5, 16), hw, 64), 64)
        imm16 == IF hi8 = 18 THEN Trunc(inv, 32) ELSE inv
    IN IF opbits(op, 23, 1) = 1
       THEN IF hi8 = 18 /\ hw > 16 THEN { unhandled(s) }
            ELSE { [ (IF d # 31 THEN SetReg(s, d, imm16) ELSE s)
                     EXCEPT !.enc = "MOVN", !.zrd = d = 31 ] }
       ELSE { [s EXCEPT !.out = "unmodelled"] }

\* case 0x10, 0x30, 0x50, 0x70: ADR
case_10(s, op) ==
    LET d == opbits(op, 0, 5)
        offset == sign_extend(Shl(get_bits(op, 5, 19), 2, 64) \cup get_bits(op, 29, 2), 20)
    IN { [ (IF d # 31 THEN SetReg(s, d, Add(s.pc, offset, 64)) ELSE s)
           EXCEPT !.enc = "ADR", !.zrd = d = 31 ] }

\* case 0x90, 0xb0, 0xd0, 0xf0: ADRP
case_90(s, op) ==
    LET d == opbits(op, 0, 5)
        imm == sign_extend(Shl(get_bits(op, 5, 19), 2, 64) \cup get_bits(op, 29, 2), 20)
        page == s.pc \ Ones(12)
    IN { [ SetReg(s, d, Add(Shl(imm, 12, 64), page, 64))
           EXCEPT !.enc = "ADRP", !.zrd = d = 31 ] }

\* case 0x0a, 0x6a, 0x8a, 0xea: AND / BIC / ANDS / BICS (shifted register)
case_0a(s, op, hi8) ==
    LET shift == opbits(op, 22, 2)
        N == opbits(op, 21, 1) = 1
        m == opbits(op, 16, 5)
        imm6 == opbits(op, 10, 6)
        n == opbits(op, 5, 5)
        d == opbits(op, 0, 5)
        set_flags == (hi8 \div 32) % 4 = 3
        xregs == HiBit(hi8, 128)
        w == IF xregs THEN 64 ELSE 32
        shifted == IF xregs THEN shift_reg64(s, m, shift, imm6) ELSE shift_reg32(s, m, shift, imm6)
        s1 == [ Use31(Use31(s, m, Zero), n, s.regs[n])
                EXCEPT !.enc = "AND_shift", !.zrd = d = 31 ]
        Apply(sh) ==
            LET op2 == IF N THEN Not(sh, w) ELSE sh
                result == s.regs[n] \cap op2
                s2 == IF set_flags
                      THEN [s1 EXCEPT !.fZ = result = Zero, !.fV = FALSE, !.fC = FALSE,
                                      !.fN = (w - 1) \in result]
                      ELSE s1
            IN IF d # 31 THEN SetReg(s2, d, result) ELSE s2
    IN { Apply(sh) : sh \in shifted }

\* the implemented encoding of family 0x1a / 0x9a the sub-fields select, "none" for the rest
Enc1a(b11_10, b23_21, b15_12) ==
    CASE b11_10 = 0 /\ b23_21 = 4 -> "CSEL"
      [] b11_10 = 1 /\ b23_21 = 4 -> "CSINC"
      [] b11_10 = 2 /\ b23_21 = 6 /\ b15_12 = 2 -> "ASRV"
      [] b11_10 = 2 /\ b23_21 = 6 /\ b15_12 = 0 -> "UDIV"
      [] b11_10 = 3 /\ b23_21 = 6 /\ b15_12 = 0 -> "SDIV"
      [] b11_10 = 1 /\ b23_21 = 6 /\ b15_12 = 2 -> "LSRV"
      [] b11_10 = 0 /\ b23_21 = 6 /\ b15_12 = 2 -> "LSLV"
      [] b11_10 = 0 /\ b23_21 = 0 /\ b15_12 = 0 -> "ADC"
      [] b11_10 = 3 /\ b23_21 = 6 /\ b15_12 = 2 -> "RORV"
      [] OTHER -> "none"

\* the host's integer division: by zero and MIN / -1 are undefined in C, and the host
\* either traps or yields some quotient
Trap == [trap |-> TRUE, q |-> Zero]
Quot(q) == [trap |-> FALSE, q |-> q]
HostSDiv(n, d, w) ==
    IF Trunc(d, w) = Zero THEN { Trap, Quot(Zero) }
    ELSE IF Trunc(n, w) = {w - 1} /\ Trunc(d, w) = Ones(w) THEN { Trap, Quot({w - 1}) }
    ELSE { Quot(SDiv(Trunc(n, w), Trunc(d, w), w)) }
HostUDiv(n, d, w) ==
    IF Trunc(d, w) = Zero THEN { Trap, Quot(Zero) } ELSE { Quot(UDiv(n, d, w)) }

\* regs[ d ] = q for each outcome q of a host division
Quotients(s, d, qs) ==
    { IF x.trap THEN [s EXCEPT !.out = "crash"] ELSE SetReg(s, d, x.q) : x \in qs }

\* case 0x1a, 0x9a: CSEL, CSINC, ASRV, UDIV, SDIV, LSRV, LSLV, ADC, RORV
case_1a(s, op, hi8) ==
    LET xregs == HiBit(hi8, 128)
        w == IF xregs THEN 64 ELSE 32
        b11_10 == opbits(op, 10, 2)
        d == opbits(op, 0, 5)
        n == opbits(op, 5, 5)
        m == opbits(op, 16, 5)
        b15_12 == opbits(op, 12, 4)
        b23_21 == opbits(op, 21, 3)
        enc == Enc1a(b11_10, b23_21, b15_12)
        mval == val_reg_or_zr(s, m)
        nval == val_reg_or_zr(s, n)
        cond == check_conditional(s, opbits(op, 12, 4))
        shift == ToNat(Trunc(mval, IF xregs THEN 6 ELSE 5))
        s1 == [ Use31(Use31(s, m, mval), n, nval) EXCEPT !.enc = enc, !.zrd = d = 31 ]
        done ==
            CASE enc = "CSEL" -> { SetReg(s1, d, IF cond THEN nval ELSE mval) }
              [] enc = "CSINC" -> { SetReg(s1, d, IF cond THEN nval ELSE Add({0}, mval, 64)) }
              [] enc = "ASRV" -> { SetReg(s1, d, Asr(Trunc(nval, w), shift, w)) }
              [] enc = "UDIV" ->
                    IF xregs THEN { SetReg(s1, d, IF mval = Zero THEN Zero ELSE UDiv(nval, mval, 64)) }
                    ELSE IF mval = Zero THEN { SetReg(s1, d, Zero) }
                    ELSE Quotients(s1, d, HostUDiv(nval, mval, 32))
              [] enc = "SDIV" ->
                    IF xregs
                    THEN IF s.regs[m] # Zero
                         THEN (IF mval = Zero THEN { SetReg(s1, d, Zero) }
                               ELSE Quotients(s1, d, HostSDiv(nval, mval, 64)))
                         ELSE { s1 }
                    ELSE IF Trunc(mval, 32) # Zero
                         THEN Quotients(s1, d, HostSDiv(nval, mval, 32))
                         ELSE { s1 }
              [] enc = "LSRV" -> { SetReg(s1, d, Shr(Trunc(nval, w), shift)) }
              [] enc = "LSLV" -> { SetReg(s1, d, Shl(nval, shift, w)) }
              [] enc = "ADC" ->
                    { SetReg(s1, d, IF xregs THEN add_with_carry64(nval, mval, s.fC).result
                                    ELSE add_with_carry32(nval, mval, s.fC).result) }
              [] enc = "RORV" ->
                    { SetReg(s1, d, v) :
                        v \in IF xregs THEN shift_reg64(s, n, 3, ToNat(Trunc(mval, 7)))
                              ELSE shift_reg32(s, n, 3, ToNat(Trunc(mval, 6))) }
              [] OTHER -> { unhandled(s1) }
    IN IF d = 31 THEN { s1 }
       ELSE IF xregs THEN done
       ELSE { IF Alive(x) THEN SetReg(x, d, Trunc(x.regs[d], 32)) ELSE x : x \in done }

\* case 0x3a, 0xba, 0x7a, 0xfa: CCMN / CCMP ; ADCS
case_3a(s, op, hi8) ==
    LET b23_21 == opbits(op, 21, 3)
        n == opbits(op, 5, 5)
        m == opbits(op, 16, 5)
        d == opbits(op, 0, 5)
        xregs == HiBit(hi8, 128)
        w == IF xregs THEN 64 ELSE 32
        o2 == opbits(op, 10, 2)
        nval == val_reg_or_zr(s, n)
        mval == val_reg_or_zr(s, m)
        raw == IF o2 = 0 THEN mval ELSE get_bits(op, 16, 5)
        op2 == IF ~ HiBit(hi8, 64) THEN Neg(Trunc(raw, w), w) ELSE raw
        sn == Use31(s, n, nval)
    IN IF b23_21 = 2
       THEN IF opbits(op, 4, 1) # 0 THEN { unhandled(s) }
            ELSE IF check_conditional(s, opbits(op, 12, 4))
            THEN IF o2 \notin {0, 2} THEN { unhandled(s) }
                 ELSE { SetFlags(Enc(IF o2 = 0 THEN Use31(sn, m, mval) ELSE sn, "CCMP"),
                                 IF xregs THEN sub64(nval, op2) ELSE sub32(nval, op2)) }
            ELSE { set_flags_from_nzcv(Enc(s, "CCMP"), opbits(op, 0, 4)) }
       ELSE IF hi8 \in {58, 186} /\ b23_21 = 0
       THEN LET r == IF xregs THEN add_with_carry64(nval, mval, s.fC)
                     ELSE add_with_carry32(nval, mval, s.fC)
                s1 == [ SetFlags(Use31(sn, m, mval), r) EXCEPT !.enc = "ADCS", !.zrd = d = 31 ]
            IN { IF d # 31 THEN SetReg(s1, d, r.result) ELSE s1 }
       ELSE { s }

\* bytes moved by the size prefix of the top byte: 0x38 B, 0x78 H, 0xb8 W, 0xf8 X
AccessBytes(hi8) == Pow2(hi8 \div 64)

\* the 32-bit word with the given 16-bit halves
W32(hi16, lo16) == Shl(FromNat(hi16), 16, 32) \cup FromNat(lo16)

\* case 0x38, 0x78, 0xb8, 0xf8: STR / LDR, immediate pre- and post-index, unscaled,
\* and register offset (opc 0..3); Rt is in zero-register context, Rn is <Xn|SP>
case_38(s, op, hi8) ==
    LET opc == opbits(op, 21, 3)
        n == opbits(op, 5, 5)
        t == opbits(op, 0, 5)
        w == AccessBytes(hi8)
        extended_imm9 == sign_extend(get_bits(op, 12, 9), 8)
        option == opbits(op, 10, 2)
        bumped == Add(s.regs[n], extended_imm9, 64)
        \* immediate forms: the address, and the base after a pre-index update
        address == IF option = 1 THEN s.regs[n] ELSE bumped
        pre == IF option = 3 THEN SetReg(s, n, bumped) ELSE s
        Post(x) == IF option = 1 THEN SetReg(x, n, Add(x.regs[n], extended_imm9, 64)) ELSE x
        \* register forms
        m == opbits(op, 16, 5)
        shift == IF opbits(op, 12, 1) = 1 THEN hi8 \div 64 ELSE 0
        raddress == Add(s.regs[n], extend_reg(s, m, opbits(op, 13, 3), shift), 64)
        val == Trunc(IF t = 31 THEN Zero ELSE pre.regs[t], 8 * w)
        rval == Trunc(IF t = 31 THEN Zero ELSE s.regs[t], 8 * w)
        wb == n = 31 /\ option \in {1, 3}
        form == CASE option = 1 -> "post" [] option = 3 -> "pre" [] OTHER -> "offset"
        iea(load) == EA(form, n, s.regs[n], extended_imm9, address, load /\ t = n /\ n # 31)
        rea(load) == EA("offset", n, s.regs[n], extend_reg(s, m, opbits(op, 13, 3), shift),
                        raddress, load /\ t = n /\ n # 31)
    IN CASE opc = 0 ->
              IF option = 2 THEN { unhandled(s) }
              ELSE { Post(x) : x \in Store([ Use31(pre, t, Zero) EXCEPT !.enc = "STR_imm", !.wb31 = wb,
                                                                      !.ea = iea(FALSE) ],
                                           address, w, val) }
         [] opc = 1 ->
              Store([ Use31(Use31(s, t, Zero), m, Zero) EXCEPT !.enc = "STR_reg", !.ea = rea(FALSE) ],
                    raddress, w, rval)
         [] opc = 2 ->
              IF option = 2 THEN { unhandled(s) }
              ELSE { IF Alive(l.st) THEN Post(SetReg(l.st, t, l.val)) ELSE l.st :
                       l \in Load([ pre EXCEPT !.enc = "LDR_imm", !.zrd = t = 31, !.wb31 = wb,
                                               !.ea = iea(TRUE) ],
                                  address, w) }
         [] opc = 3 ->
              { IF Alive(l.st) THEN SetReg(l.st, t, l.val) ELSE l.st :
                  l \in Load([ Use31(s, m, Zero) EXCEPT !.enc = "LDR_reg", !.zrd = t = 31,
                                                 !.ea = rea(TRUE) ],
                             raddress, w) }
         [] opc \in {4, 6} ->
              IF option = 0
              THEN \* LDURSB / LDURSH / LDURSW
                   IF t = 31 THEN { [s EXCEPT !.enc = "LDURS", !.zrd = TRUE] }
                   ELSE IF hi8 = 248 THEN { unhandled(s) }
                   ELSE LET isx == opbits(op, 22, 1) # 0
                        IN { IF Alive(l.st)
                             THEN SetReg(l.st, t, IF isx THEN sign_extend(l.val, 8 * w - 1)
                                                  ELSE Trunc(sign_extend(l.val, 8 * w - 1), 32))
                             ELSE l.st : l \in Load(Enc(s, "LDURS"), bumped, w) }
              ELSE \* LDRSB / LDRSH / LDRSW, post-index and pre-index
                   IF option = 2 \/ hi8 = 248 THEN { unhandled(s) }
                   ELSE { IF Alive(l.st) THEN Post(SetReg(l.st, t, sign_extend(l.val, 8 * w - 1)))
                          ELSE l.st :
                            l \in Load([ pre EXCEPT !.enc = "LDRS_imm", !.wb31 = wb ], address, w) }
         [] OTHER ->
              \* opc 5, 7: LDRSB / LDRSH / LDRSW, register offset
              LET ext == opbits(op, 13, 3)
                  mval == s.regs[m]
                  offset == CASE hi8 = 184 ->
                                   extend_reg(s, m, ext, IF opbits(op, 12, 1) = 1 THEN 2 ELSE 0)
                              [] hi8 = 56 /\ ext = 3 -> Shl(mval, shift, 64)
                              [] OTHER -> extend_reg(s, m, ext, shift)
              IN IF t = 31 THEN { [s EXCEPT !.enc = "LDRS_reg", !.zrd = TRUE] }
                 ELSE IF hi8 = 248 THEN { unhandled(s) }
                 ELSE { IF Alive(l.st) THEN SetReg(l.st, t, sign_extend(l.val, 8 * w - 1)) ELSE l.st :
                          l \in Load(Enc(s, "LDRS_reg"), Add(s.regs[n], offset, 64), w) }

\* case 0x39, 0x79, 0xb9, 0xf9: STR / LDR / LDRS, unsigned offset
case_39(s, op, hi8) ==
    LET opc == opbits(op, 22, 2)
        imm12 == Shl(get_bits(op, 10, 12), opbits(op, 30, 2), 64)
        t == opbits(op, 0, 5)
        n == opbits(op, 5, 5)
        w == AccessBytes(hi8 - 1)
        address == Add(s.regs[n], imm12, 64)
        Ld(name, F(_)) ==
            IF t = 31 THEN { [s EXCEPT !.enc = name, !.zrd = TRUE] }
            ELSE { IF Alive(l.st) THEN SetReg(l.st, t, F(l.val)) ELSE l.st :
                     l \in Load(Enc(s, name), address, w) }
        same(v) == v
        sx(v) == sign_extend(v, 8 * w - 1)
        sx32(v) == sign_extend32(v, 8 * w - 1)
    IN CASE opc = 0 -> Store(Enc(Use31(s, t, Zero), "STR_uimm"), address, w,
                             Trunc(val_reg_or_zr(s, t), 8 * w))
         [] opc = 1 -> Ld("LDR_uimm", same)
         [] opc = 2 -> IF t # 31 /\ hi8 = 249 THEN { unhandled(s) } ELSE Ld("LDRS_uimm", sx)
         [] OTHER -> IF t # 31 /\ hi8 = 249 THEN { unhandled(s) } ELSE Ld("LDRS_uimm", sx32)

\* case 0x88, 0xc8: STXR / STLXR / STLR ; LDXR / LDAXR
case_88(s, op, hi8) ==
    LET t == opbits(op, 0, 5)
        n == opbits(op, 5, 5)
        t2 == opbits(op, 10, 5)
        rs == opbits(op, 16, 5)
        L == opbits(op, 21, 2)
        bit23 == opbits(op, 23, 1) = 1
        w == IF opbits(op, 30, 1) = 1 THEN 8 ELSE 4
        tval == val_reg_or_zr(s, t)
    IN IF t2 # 31 THEN { unhandled(s) }
       ELSE IF L = 0
       THEN { IF Alive(x) /\ ~ bit23 /\ rs # 31 THEN SetReg(x, rs, Zero) ELSE x :
                x \in Store([ Use31(s, t, tval) EXCEPT !.enc = "STXR", !.zrd = ~ bit23 /\ rs = 31 ],
                            s.regs[n], w, Trunc(tval, 8 * w)) }
       ELSE IF L = 2
       THEN IF rs # 31 THEN { unhandled(s) }
            ELSE IF t # 31
            THEN { IF Alive(l.st) THEN SetReg(l.st, t, l.val) ELSE l.st :
                     l \in Load(Enc(s, "LDXR"), s.regs[n], IF hi8 = 200 THEN 8 ELSE 4) }
            ELSE { [ s EXCEPT !.enc = "LDXR", !.zrd = TRUE ] }
       ELSE { s }

\* the addressing form the encoding of a load/store pair names in bits 24:23:
\* 0 no-allocate (offset, no writeback), 1 post-index, 2 signed offset, 3 pre-index
PairForm(op) ==
    CASE opbits(op, 23, 2) = 1 -> "post" [] opbits(op, 23, 2) = 3 -> "pre" [] OTHER -> "offset"

\* case 0x28, 0xa8, 0x29, 0xa9, 0x68, 0x69: STP / LDP / LDPSW of general registers
case_28(s, op, hi8) ==
    LET xregs == opbits(op, 31, 1) # 0
        w == IF xregs THEN 8 ELSE 4
        t1 == opbits(op, 0, 5)
        t2 == opbits(op, 10, 5)
        n == opbits(op, 5, 5)
        imm7 == Shl(sign_extend(get_bits(op, 15, 7), 6), IF xregs THEN 3 ELSE 2, 64)
        variant == opbits(op, 23, 2)
        postIndex == variant = 1
        preIndex == variant = 3
        signedOffset == variant = 2
        address == IF preIndex THEN Add(s.regs[n], imm7, 64) ELSE s.regs[n]
        a1 == IF signedOffset THEN Add(address, imm7, 64) ELSE address
        a2 == Add(a1, FromNat(w), 64)
        final == IF postIndex THEN Add(address, imm7, 64) ELSE address
        isload == opbits(op, 22, 1) # 0
        se == HiBit(hi8, 64)
        t1val == val_reg_or_zr(s, t1)
        t2val == val_reg_or_zr(s, t2)
        s1 == [ Use31(Use31(s, t1, t1val), t2, t2val)
                EXCEPT !.enc = IF isload THEN "LDP" ELSE "STP",
                       !.wb31 = n = 31 /\ (preIndex \/ postIndex),
                       !.zrd = isload /\ (t1 = 31 \/ t2 = 31),
                       !.ea = EA(PairForm(op), n, s.regs[n], imm7, a1,
                                 isload /\ n # 31 /\ (t1 = n \/ t2 = n)) ]
        WriteBack(x) == IF Alive(x) /\ (preIndex \/ postIndex) THEN SetReg(x, n, final) ELSE x
        Val(v) == IF ~ xregs /\ se THEN sign_extend(v, 31) ELSE v
        LoadTo(x, t, a) ==
            IF ~ Alive(x) \/ t = 31 THEN { x }
            ELSE { IF Alive(l.st) THEN SetReg(l.st, t, Val(l.val)) ELSE l.st : l \in Load(x, a, w) }
        StoreAt(x, a, v) == IF ~ Alive(x) THEN { x } ELSE Store(x, a, w, Trunc(v, 8 * w))
    IN IF variant = 0 THEN { unhandled(s) }
       ELSE IF isload
       THEN { WriteBack(y) : y \in UNION { LoadTo(x, t2, a2) : x \in LoadTo(s1, t1, a1) } }
       ELSE { WriteBack(y) : y \in UNION { StoreAt(x, a2, t2val) : x \in StoreAt(s1, a1, t1val) } }

\* case 0x2c, 0x6c, 0xac, 0x2d, 0x6d, 0xad: STP / LDP of S, D and Q registers
case_2c(s, op, hi8) ==
    LET opc == opbits(op, 30, 2)
        imm7 == get_bits(op, 15, 7)
        t2 == opbits(op, 10, 5)
        n == opbits(op, 5, 5)
        t1 == opbits(op, 0, 5)
        L == opbits(op, 22, 1)
        bit23 == opbits(op, 23, 1) = 1
        preIndex == hi8 % 16 = 13 /\ bit23
        postIndex == hi8 % 16 = 12 /\ bit23
        signedOffset == hi8 % 16 = 13 /\ ~ bit23
        scale == 2 + opc
        offset == Shl(sign_extend(imm7, 6), scale, 64)
        byte_len == 4 * Pow2(opc)
        address == IF preIndex \/ signedOffset THEN Add(s.regs[n], offset, 64) ELSE s.regs[n]
        a2 == Add(address, FromNat(byte_len), 64)
        final == IF postIndex THEN Add(address, offset, 64) ELSE address
        s1 == [ s EXCEPT !.enc = IF L = 1 THEN "LDP_v" ELSE "STP_v",
                         !.wb31 = n = 31 /\ ~ signedOffset,
                         !.ea = EA(PairForm(op), n, s.regs[n], offset, address, FALSE) ]
        cleared == [ s1 EXCEPT !.vregs[t1] = Zero, !.vregs[t2] = Zero ]
        WriteBack(x) == IF Alive(x) /\ ~ signedOffset THEN SetReg(x, n, final) ELSE x
        LoadTo(x, t, a) ==
            IF ~ Alive(x) THEN { x }
            ELSE { IF Alive(l.st) THEN [ l.st EXCEPT !.vregs[t] = l.val \cup (@ \ Ones(8 * byte_len)) ]
                   ELSE l.st : l \in Load(x, a, byte_len) }
        StoreAt(x, a, t) ==
            IF ~ Alive(x) THEN { x } ELSE Store(x, a, byte_len, Trunc(x.vregs[t], 8 * byte_len))
    IN IF L = 1
       THEN { WriteBack(y) : y \in UNION { LoadTo(x, t2, a2) : x \in LoadTo(cleared, t1, address) } }
       ELSE { WriteBack(y) : y \in UNION { StoreAt(x, a2, t2) : x \in StoreAt(s1, address, t1) } }

\* ------------------------------------------------------------ vector and FP handlers
\* vreg_setui16 / 32 / 64 at byte 0, and the assignment to vregs[ d ].f or .d: the low
\* len bytes of the register become v, the bytes above them stay
vreg_set(s, d, v, len) ==
    [ s EXCEPT !.vregs[d] = Trunc(v, 8 * len) \cup (@ \ Ones(8 * len)), !.vd = d, !.vlen = len ]

\* replicate_bytes: the low byte_len bytes of val repeated over 64 bits
replicate_bytes(val, byte_len) ==
    LET pattern == Trunc(val, 8 * byte_len)
    IN UNION { Shl(pattern, x * byte_len * 8, 64) : x \in 0..((8 \div byte_len) - 1) }

\* adv_simd_expand_imm( operand, cmode, imm8 ): operand is 0 or 1, cmode is 0 .. 15
adv_simd_expand_imm(operand, cmode, imm8) ==
    LET cm == cmode \div 2
        bit(i) == i \in imm8
    IN CASE cm = 0 -> replicate_bytes(imm8, 4)
         [] cm = 1 -> replicate_bytes(Shl(imm8, 8, 64), 4)
         [] cm = 2 -> replicate_bytes(Shl(imm8, 16, 64), 4)
         [] cm = 3 -> replicate_bytes(Shl(imm8, 24, 64), 4)
         [] cm = 4 -> replicate_bytes(imm8, 2)
         [] cm = 5 -> replicate_bytes(Shl(imm8, 8, 64), 2)
         [] cm = 6 -> IF cmode % 2 = 0
                      THEN replicate_bytes(Shl(imm8, 16, 64) \cup Ones(16), 4)
                      ELSE replicate_bytes(Shl(imm8, 8, 64) \cup Ones(8), 4)
         [] cm = 7 ->
              IF cmode % 2 = 0
              THEN IF operand = 0 THEN replicate_bytes(imm8, 1)
                   ELSE UNION { IF bit(i) THEN Shl(Ones(8), 8 * i, 64) ELSE Zero : i \in 0..7 }
              ELSE IF operand = 0
                   THEN LET a == IF bit(7) THEN {12} ELSE Zero
                            b == IF bit(6) THEN Zero ELSE {11}
                            c == IF bit(6) THEN Shl(Ones(5), 6, 64) ELSE Zero
                            d == get_bits(imm8, 0, 6)
                        IN replicate_bytes(Trunc(Shl(a \cup b \cup c \cup d, 19, 64), 32), 4)
                   ELSE (IF bit(7) THEN {63} ELSE Zero)
                            \cup (IF bit(6) THEN Zero ELSE {62})
                            \cup (IF bit(6) THEN Shl(Ones(8), 54, 64) ELSE Zero)
                            \cup Shl(get_bits(imm8, 0, 6), 48, 64)

\* case 0x0f, 0x2f, 0x4f, 0x6f, 0x7f: the MVNI and MOVI arms; the other arms of the
\* case are outside this model
case_0f(s, op, hi8) ==
    LET cmode == opbits(op, 12, 4)
        val == Shl(get_bits(op, 16, 3), 5, 64) \cup get_bits(op, 5, 5)
        Q == opbits(op, 30, 1)
        bit29 == opbits(op, 29, 1)
        bit10 == opbits(op, 10, 1)
        bit11 == opbits(op, 11, 1)
        bit12 == opbits(op, 12, 1)
        d == opbits(op, 0, 5)
        bits23_19 == opbits(op, 19, 5)
        imm == adv_simd_expand_imm(bit29, cmode, val)
        len == IF Q = 1 THEN 16 ELSE 8
        \* vreg_setuiN( d, o, v ) for o = 0, w, 2w, .. below len
        lanes(v, w) == UNION { Shl(Trunc(v, 8 * w), 8 * o, 128) : o \in { k \in 0..(len - 1) : k % w = 0 } }
        Set(enc, v, w, zero) ==
            { vreg_set([ s EXCEPT !.enc = enc, !.vregs[d] = IF zero THEN Zero ELSE @ ],
                       d, lanes(v, w), len) }
        bytemask == UNION { IF opbits(op, b[1], 1) = 1 THEN Shl(Ones(8), 8 * b[2], 64) ELSE Zero :
                            b \in { << 18, 7 >>, << 17, 6 >>, << 16, 5 >>, << 9, 4 >>,
                                    << 8, 3 >>, << 7, 2 >>, << 6, 1 >>, << 5, 0 >> } }
    IN IF bits23_19 # 0 THEN { [s EXCEPT !.out = "unmodelled"] }
       ELSE IF hi8 \in {47, 111} /\ bit11 = 0 /\ bit10 = 1 /\ cmode \in {8, 10, 0, 2, 4, 6, 12}
       THEN IF cmode \in {8, 10}
            THEN Set("MVNI", Not(Shl(val, 8 * ((cmode \div 2) % 2), 64), 16), 2, FALSE)
            ELSE IF cmode \in {0, 2, 4, 6}
            THEN Set("MVNI", Not(Shl(val, 8 * ((cmode \div 2) % 4), 64), 32), 4, FALSE)
            ELSE Set("MVNI", Not(imm, 64), 8, FALSE)
       ELSE IF bit12 = 0 \/ cmode \in {12, 13}
       THEN IF bit29 = 0
            THEN IF cmode = 14 THEN Set("MOVI", imm, 8, TRUE)
                 ELSE IF cmode \in {8, 10}
                 THEN Set("MOVI", Shl(val, IF (cmode \div 2) % 2 = 1 THEN 8 ELSE 0, 64), 2, TRUE)
                 ELSE IF cmode \in {0, 2, 4, 6}
                 THEN Set("MOVI", replicate_bytes(Shl(val, 8 * ((cmode \div 2) % 4), 64), 4), 8, TRUE)
                 ELSE { unhandled(s) }
            ELSE IF cmode = 14 THEN Set("MOVI", bytemask, 8, FALSE)
                 ELSE { unhandled(s) }
       ELSE { [s EXCEPT !.out = "unmodelled"] }

\* ------------------------------------------------------------ logical immediates
\* a rotation by one bit to the left
ror_Left(elt, size) ==
    Shr(elt \cap {size - 1}, size - 1) \cup Trunc(Shl(elt, 1, 64), size)

\* ror( elt, size ): elt, below 2^size, rotated right by one bit
ror(elt, size) ==
    Shl(Trunc(elt, 1), size - 1, 64) \cup Shr(elt, 1)

\* count_leading_zeroes( x, bit_width ): the loop counts the bits up to the highest one
count_leading_zeroes(x, bit_width) ==
    LET RECURSIVE count(_)
        count(v) == IF v = Zero THEN 0 ELSE 1 + count(Shr(v, 1))
    IN bit_width - count(x)

\* decode_logical_immediate( val, bit_width ), for the fields for which len is at
\* least 1 and size at most bit_width (for the others the loops do not end)
decode_logical_immediate(val, bit_width) ==
    LET N == get_bits(val, 12, 1)
        immr == get_bits(val, 6, 6)
        imms == get_bits(val, 0, 6)
        lzero_count == count_leading_zeroes(Shl(N, 6, 64) \cup Not(imms, 6), 32)
        len == 31 - lzero_count
        size == Pow2(len)
        R == ToNat(immr \cap FromNat(size - 1))
        S == ToNat(imms \cap FromNat(size - 1))
        pattern == Ones(S + 1)
        RECURSIVE rotated(_, _)
        rotated(p, i) == IF i = 0 \/ p = Zero THEN p ELSE rotated(ror(p, size), i - 1)
        RECURSIVE widened(_, _)
        widened(p, sz) == IF sz = bit_width THEN p ELSE widened(p \cup Shl(p, sz, 64), 2 * sz)
    IN widened(rotated(pattern, R), size)

\* the values `size = ( 1ull << len )` may take in decode_logical_immediate: len is
\* 31 - lzero_count, 0 .. 6, but for N = 0 and imms = 0x3f it wraps to 2^64 - 1 and the
\* shift is undefined: the host uses the count modulo 64, or shifts the 1 out
decode_sizes(val) ==
    LET N == get_bits(val, 12, 1)
        imms == get_bits(val, 0, 6)
        lzero_count == count_leading_zeroes(Shl(N, 6, 64) \cup Not(imms, 6), 32)
    IN IF lzero_count <= 31 THEN { {31 - lzero_count} } ELSE { {63}, Zero }

\* whether `while ( size != bit_width ) { pattern |= ( pattern << size ); size *= 2; }`
\* is left: size doubles modulo 2^64, and once it is 0 it stays 0
RECURSIVE widening_ends(_, _)
widening_ends(size, bit_width) ==
    IF size = FromNat(bit_width) THEN TRUE
    ELSE IF size = Zero THEN FALSE
    ELSE widening_ends(Shl(size, 1, 64), bit_width)

\* case 0x52, 0xd2: MOVZ ; EOR (immediate).  The EOR arm does not return when the loop
\* of decode_logical_immediate is not left ("hang"); `( 1ull << ( S + 1 ) ) - 1` with
\* S = 63 is undefined, the pattern is 0 or all ones
case_52(s, op, hi8) ==
    LET d == opbits(op, 0, 5)
        imm16 == get_bits(op, 5, 16)
        hw == opbits(op, 21, 2)
        xregs == HiBit(hi8, 128)
        bit_width == IF xregs THEN 64 ELSE 32
        N_immr_imms == get_bits(op, 10, 13)
        n == opbits(op, 5, 5)
        nvalue == val_reg_or_zr(s, n)
        op2s == IF 12 \in N_immr_imms /\ get_bits(N_immr_imms, 0, 6) = Ones(6)
                THEN { Zero, Ones(64) }
                ELSE { decode_logical_immediate(N_immr_imms, bit_width) }
        eor(op2) == IF xregs THEN Xor(nvalue, op2) ELSE Trunc(Xor(nvalue, op2), 32)
    IN IF opbits(op, 23, 1) = 1
       THEN { [ (IF d # 31 THEN SetReg(s, d, Shl(imm16, hw * 16, 64)) ELSE s)
                EXCEPT !.enc = "MOVZ", !.zrd = d = 31 ] }
       ELSE UNION { IF widening_ends(size, bit_width)
                    THEN { [ SetReg(Use31(s, n, nvalue), d, eor(op2))
                             EXCEPT !.enc = "EOR_imm", !.wb31 = d = 31 ] : op2 \in op2s }
                    ELSE { [s EXCEPT !.enc = "EOR_imm", !.out = "hang"] }
                    : size \in decode_sizes(N_immr_imms) }

\* isnan of the float (ebits = 8, mbits = 23) or double (11, 52) with the bits x
fp_isnan(x, ebits, mbits) ==
    get_bits(x, mbits, ebits) = Ones(ebits) /\ Trunc(x, mbits) # Zero

\* the host's a - b on floats or doubles, as set_flags_from_double sees it: "nan",
\* "zero" (0.0 == result), "neg" (result < 0.0) or "pos".  IEEE 754, round to nearest
\* with gradual underflow: the difference of two numbers is 0 only when they are
\* equal, has the sign of the comparison otherwise, and is NaN for a NaN operand and
\* for two infinities of one sign
fp_sub(a, b, ebits, mbits) ==
    LET w == 1 + ebits + mbits
        x == Trunc(a, w)
        y == Trunc(b, w)
        neg(v) == (w - 1) \in v
        mag(v) == Trunc(v, w - 1)
        isinf(v) == mag(v) = Shl(Ones(ebits), mbits, 64)
        less(u, v) ==
            IF mag(u) = Zero /\ mag(v) = Zero THEN FALSE
            ELSE IF neg(u) # neg(v) THEN neg(u)
            ELSE IF neg(u) THEN ULT(mag(v), mag(u)) ELSE ULT(mag(u), mag(v))
    IN IF fp_isnan(x, ebits, mbits) \/ fp_isnan(y, ebits, mbits) THEN "nan"
       ELSE IF isinf(x) /\ isinf(y) /\ neg(x) = neg(y) THEN "nan"
       ELSE IF less(x, y) THEN "neg"
       ELSE IF less(y, x) THEN "pos"
       ELSE "zero"

\* the host's a + b, a - b and a / b on floats or doubles, for the operands whose
\* result needs no rounding: a + 0.0 and a - 0.0 are a, and 0.0 / b is a zero with the
\* sign of b.  The empty set for every other pair of operands
fp_arith(f, a, b, ebits, mbits) ==
    LET w == 1 + ebits + mbits
        x == Trunc(a, w)
        y == Trunc(b, w)
    IN IF fp_isnan(x, ebits, mbits) \/ fp_isnan(y, ebits, mbits) THEN {}
       ELSE IF f \in {"FADD", "FSUB"}
       THEN IF y = Zero /\ x # {w - 1} THEN { x } ELSE {}
       ELSE IF x = Zero /\ Trunc(y, w - 1) # Zero
            THEN { IF (w - 1) \in y THEN {w - 1} ELSE Zero }
            ELSE {}

\* (float) (int32_t) v and (double) (int64_t) v for the integers the type holds
\* exactly; the empty set for those the conversion rounds
CastToFP(v, w, ebits, mbits) ==
    LET neg == (w - 1) \in v
        mag == IF neg THEN Neg(v, w) ELSE Trunc(v, w)
        hi == MaxOf(mag)
        lo == CHOOSE m \in mag : \A k \in mag : m <= k
        bias == Pow2(ebits - 1) - 1
    IN IF mag = Zero THEN { Zero }
       ELSE IF hi - lo > mbits THEN {}
       ELSE { { (i + mbits) - hi : i \in mag \ {hi} }
                \cup Shl(FromNat(bias + hi), mbits, 64)
                \cup (IF neg THEN {ebits + mbits} ELSE Zero) }

\* set_flags_from_double of a result that is "nan", "zero", "neg" or "pos"
set_flags_from_double(s, result) ==
    CASE result = "nan" -> [s EXCEPT !.fN = FALSE, !.fZ = FALSE, !.fC = TRUE, !.fV = TRUE]
      [] result = "zero" -> [s EXCEPT !.fN = FALSE, !.fV = FALSE, !.fZ = TRUE, !.fC = TRUE]
      [] result = "neg" -> [s EXCEPT !.fN = TRUE, !.fZ = FALSE, !.fC = FALSE, !.fV = FALSE]
      [] OTHER -> [s EXCEPT !.fN = FALSE, !.fZ = FALSE, !.fV = FALSE, !.fC = TRUE]

\* case 0x1e, 0x9e: the if / else if chain in its order; the arms FCCMPE, FCMP, FDIV,
\* FADD, FSUB, SCVTF (scalar, integer) and FCCMP, the other arms are outside this model
case_1e(s, op, hi8) ==
    LET sf == opbits(op, 31, 1)
        ftype == opbits(op, 22, 2)
        bit21 == opbits(op, 21, 1) = 1
        bit11 == opbits(op, 11, 1) = 1
        bit10 == opbits(op, 10, 1) = 1
        bit4 == opbits(op, 4, 1) = 1
        bits21_19 == opbits(op, 19, 3)
        rmode == opbits(op, 19, 2)
        bits18_16 == opbits(op, 16, 3)
        bits18_10 == opbits(op, 10, 9)
        masked(mask) == ToNat(get_bits(op, 10, 9) \cap FromNat(mask))
        n == opbits(op, 5, 5)
        d == opbits(op, 0, 5)
        m == opbits(op, 16, 5)
        opc == opbits(op, 3, 2)
        ebits == IF ftype = 0 THEN 8 ELSE 11
        mbits == IF ftype = 0 THEN 23 ELSE 52
        bytes == IF ftype = 0 THEN 4 ELSE 8
        cond == opbits(op, 12, 4)
        nzcv == opbits(op, 0, 4)
        difference == IF ftype = 0 THEN fp_sub(s.vregs[n], s.vregs[m], 8, 23)
                      ELSE fp_sub(s.vregs[n], s.vregs[m], 11, 52)
        compared(name) ==
            IF ftype \notin {0, 1} THEN unhandled(s)
            ELSE set_flags_from_double(Enc(s, name), difference)
        earlier ==
            \/ bits21_19 = 3 /\ bits18_16 = 0
            \/ bits21_19 = 4 /\ bits18_10 = 256
            \/ hi8 = 30 /\ bits21_19 = 4 /\ bits18_10 = 400
            \/ masked(447) = 384 /\ bit21 /\ rmode \in {0, 1}
            \/ bits18_10 = 64 /\ bit21 /\ rmode = 3
            \/ masked(448) = 64 /\ ~ bit21 /\ rmode = 3
            \/ hi8 = 30 /\ masked(7) = 4 /\ bit21
            \/ hi8 = 30 /\ masked(63) = 2 /\ bit21
            \/ hi8 = 30 /\ masked(415) = 144 /\ bit21
            \/ hi8 = 30 /\ bits18_10 = 16 /\ bits21_19 = 4
        arith(f) ==
            IF ftype \notin {0, 1} THEN { unhandled(s) }
            ELSE LET r == fp_arith(f, s.vregs[n], s.vregs[m], ebits, mbits)
                 IN IF r = {} THEN { [s EXCEPT !.out = "unmodelled"] }
                    ELSE { vreg_set(Enc(s, f), d, v, bytes) : v \in r }
        fcmp ==
            IF ftype = 0 /\ opc \in {0, 2} THEN { fp_sub(s.vregs[n], s.vregs[m], 8, 23) }
            ELSE IF ftype = 0 /\ m = 0 /\ opc \in {1, 3} THEN { fp_sub(s.vregs[n], Zero, 8, 23) }
            ELSE IF ftype = 1 /\ opc \in {0, 2} THEN { fp_sub(s.vregs[n], s.vregs[m], 11, 52) }
            ELSE IF ftype = 1 /\ m = 0 /\ opc \in {1, 3} THEN { fp_sub(s.vregs[n], Zero, 11, 52) }
            ELSE {}
        nval == IF sf = 1 THEN val_reg_or_zr(s, n) ELSE Trunc(val_reg_or_zr(s, n), 32)
        cast == IF ftype = 0 THEN CastToFP(Trunc(nval, 32), 32, 8, 23) ELSE CastToFP(nval, 64, 11, 52)
        later ==
            \/ bits18_10 = 112 /\ bit21 /\ rmode = 0
            \/ bit21 /\ masked(3) = 3
            \/ bit21 /\ bits18_10 = 80
            \/ bit21 /\ bits18_10 = 0 /\ rmode = 3
    IN IF hi8 = 30 /\ bit21 /\ ~ bit11 /\ bit10 /\ bit4
       THEN IF check_conditional(s, cond) THEN { compared("FCCMPE") } ELSE { Enc(s, "FCCMPE") }
       ELSE IF earlier THEN { [s EXCEPT !.out = "unmodelled"] }
       ELSE IF hi8 = 30 /\ masked(63) = 8 /\ bit21
       THEN IF fcmp = {} THEN { unhandled(s) }
            ELSE { set_flags_from_double(Enc(s, "FCMP"), result) : result \in fcmp }
       ELSE IF hi8 = 30 /\ bits18_10 = 48 /\ bits21_19 = 4 THEN { [s EXCEPT !.out = "unmodelled"] }
       ELSE IF hi8 = 30 /\ masked(63) = 6 /\ bit21 THEN arith("FDIV")
       ELSE IF hi8 = 30 /\ masked(63) = 10 /\ bit21 THEN arith("FADD")
       ELSE IF hi8 = 30 /\ masked(63) = 14 /\ bit21 THEN arith("FSUB")
       ELSE IF bits18_10 = 128 /\ bit21 /\ rmode = 0
       THEN IF ftype \notin {0, 1} THEN { unhandled(s) }
            ELSE IF cast = {} THEN { [s EXCEPT !.out = "unmodelled"] }
            ELSE { vreg_set([ Use31(s, n, Zero) EXCEPT !.enc = "SCVTF", !.vregs[d] = Zero ],
                            d, v, bytes) : v \in cast }
       ELSE IF later THEN { [s EXCEPT !.out = "unmodelled"] }
       ELSE IF bit21 /\ masked(3) = 1 /\ ~ bit4
       THEN LET c == compared("FCCMP")
            IN IF ~ Alive(c) \/ check_conditional(c, cond) THEN { c }
               ELSE { set_flags_from_nzcv(c, nzcv) }
       ELSE { [s EXCEPT !.out = "unmodelled"] }

\* case 0x5e: SCVTF <V><d>, <V><n>; the other arms are outside this model
case_5e(s, op) ==
    LET bits23_10 == opbits(op, 10, 14)
        n == opbits(op, 5, 5)
        d == opbits(op, 0, 5)
        sz == opbits(op, 22, 1)
        cast == IF sz = 1 THEN CastToFP(Trunc(s.vregs[n], 64), 64, 11, 52)
                ELSE CastToFP(Trunc(s.vregs[n], 32), 32, 8, 23)
    IN IF ToNat(get_bits(op, 10, 14) \cap FromNat(12287)) = 2166
       THEN IF cast = {} THEN { [s EXCEPT !.out = "unmodelled"] }
            ELSE { vreg_set(Enc(s, "SCVTF_v"), d, v, IF sz = 1 THEN 8 ELSE 4) : v \in cast }
       ELSE { [s EXCEPT !.out = "unmodelled"] }

\* get_bit( x, bit_number ): 1 where the bit is set
get_bit(x, bit_number) == IF bit_number \in x THEN 1 ELSE 0

\* plaster_bit( x, bit_number, bit_val ): x with the bit replaced
plaster_bit(x, bit_number, bit_val) ==
    (x \ {bit_number}) \cup (IF bit_val = 1 THEN {bit_number} ELSE {})

\* sign_extend( x, high_bit ) as a build may compute it. With high_bit = 63 the mask
\* ( 1ull << 64 ) - 1 shifts by the width of the type, which is undefined: a build whose
\* shift takes the count modulo 64 makes the mask 0 and returns ( 0 ^ m ) - m = 0, a build
\* whose shift gives 0 makes the mask all ones and returns x.
sign_extend_builds(x, high_bit) ==
    IF high_bit < 63 THEN { sign_extend(x, high_bit) } ELSE { Zero, x }

\* case 0x33, 0xb3, 0x13, 0x93, 0x53, 0xd3: BFM ; SBFM ; UBFM ; EXTR
case_13(s, op, hi8) ==
    LET N == opbits(op, 22, 1)
        imms == opbits(op, 10, 6)
        n == opbits(op, 5, 5)
        d == opbits(op, 0, 5)
        bit23 == opbits(op, 23, 1) = 1
        immr == opbits(op, 16, 6)
        regsize == IF hi8 >= 128 THEN 64 ELSE 32
        sv == val_reg_or_zr(s, n)
        dval == s.regs[d]
        start == IF hi8 \in {51, 179} THEN dval ELSE Zero
        len == IF imms >= immr THEN imms - immr + 1 ELSE imms + 1
        from == IF imms >= immr THEN immr ELSE 0
        dpos0 == IF imms >= immr THEN 0 ELSE regsize - immr
        dpos == dpos0 + len
        RECURSIVE copy(_, _)
        copy(result, i) ==
            IF i >= len \/ ~ (result \subseteq 0..63) THEN result
            ELSE copy(plaster_bit(result, dpos0 + i, get_bit(sv, from + i)), i + 1)
        copied == copy(start, 0)
        extended == IF dpos > 0 /\ get_bit(copied, dpos - 1) = 1 /\ hi8 \in {19, 147}
                    THEN sign_extend_builds(copied, dpos - 1)
                    ELSE { copied }
        name == CASE hi8 \in {51, 179} -> "BFM" [] hi8 \in {19, 147} -> "SBFM" [] OTHER -> "UBFM"
    IN IF (hi8 < 128 /\ N # 0) \/ (hi8 >= 128 /\ N # 1) THEN { unhandled(s) }
       ELSE IF d = 31 THEN { [s EXCEPT !.enc = name, !.zrd = TRUE] }
       ELSE IF bit23 /\ hi8 % 128 = 19 THEN { [s EXCEPT !.out = "unmodelled"] }
       ELSE IF regsize = 32 /\ (immr >= 32 \/ imms >= 32) THEN { [s EXCEPT !.out = "unmodelled"] }
       ELSE { [ SetReg(Use31(s, n, Zero), d, IF hi8 < 128 THEN Trunc(r, 32) ELSE r)
                EXCEPT !.enc = name ] : r \in extended }

\* case 0x0e, 0x4e with every arm reading bit 10 of the word as its part
case_0e_PartBit10(s, op, hi8) ==
    LET Q == opbits(op, 30, 1)
        imm5 == opbits(op, 16, 5)
        bit15 == opbits(op, 15, 1) = 1
        bits14_11 == opbits(op, 11, 4)
        bit10 == opbits(op, 10, 1) = 1
        bit21 == opbits(op, 21, 1) = 1
        bit23 == opbits(op, 23, 1) = 1
        bits23_21 == opbits(op, 21, 3)
        n == opbits(op, 5, 5)
        d == opbits(op, 0, 5)
        datasize == 64 * Pow2(Q)
        bits20_16 == opbits(op, 16, 5)
        bits14_10 == opbits(op, 10, 5)
        bits12_10 == opbits(op, 10, 3)
        m == imm5
        esize == 8 * Pow2(opbits(op, 22, 2))
        elements == datasize \div esize
        part == opbits(op, 10, 1)
        pairs == elements \div 2
        \* memcpy of one element of register r at element index i to element index at of target
        elem(r, i, at) == Shl(get_bits(s.vregs[r], i * esize, esize), at * esize, 128)
        zip == UNION { elem(n, part * pairs + p, 2 * p) \cup elem(m, part * pairs + p, 2 * p + 1) :
                         p \in 0..(pairs - 1) }
        uzp == UNION { elem(n, e * 2 + part, e) \cup elem(m, e * 2 + part, pairs + e) :
                         e \in 0..(pairs - 1) }
        between ==
            \/ bits23_21 = 0 /\ ~ bit15 /\ bits12_10 = 0
            \/ ~ bit21 /\ ~ bit15 /\ bits14_11 \in {13, 5} /\ ~ bit10
            \/ ~ bit23 /\ bit21 /\ bit15 /\ bits14_11 \in {10, 9} /\ bit10
            \/ ~ bit23 /\ bit21 /\ bits20_16 = 1 /\ bit15 /\ bits14_10 = 22
            \/ hi8 = 78 /\ bits23_21 = 0 /\ ~ bit15 /\ bits14_11 = 3 /\ bit10
            \/ ~ bit21 /\ ~ bit15 /\ bits14_11 \in {7, 5} /\ bit10
            \/ bits23_21 = 1 /\ ~ bit15 /\ bits14_11 = 3 /\ bit10
    IN IF bit21 /\ bit15 /\ bits14_11 = 8 /\ ~ bit10 THEN { [s EXCEPT !.out = "unmodelled"] }
       ELSE IF ~ bit21 /\ ~ bit15 /\ bits14_10 \in {30, 14}
       THEN { [s EXCEPT !.vregs[d] = zip, !.enc = IF part = 1 THEN "ZIP2" ELSE "ZIP1"] }
       ELSE IF between THEN { [s EXCEPT !.out = "unmodelled"] }
       ELSE IF ~ bit21 /\ ~ bit15 /\ bits14_11 \in {3, 11} /\ ~ bit10
       THEN { [s EXCEPT !.vregs[d] = uzp, !.enc = IF part = 1 THEN "UZP2" ELSE "UZP1"] }
       ELSE { [s EXCEPT !.out = "unmodelled"] }

\* case 0x0e, 0x4e: the if / else if chain in its order; the arms ZIP1/2 and UZP1/2 (the
\* result is built in a zeroed 16-byte target, then copied over the whole of register d)
\* and CMGT (written lane by lane into register d), the other arms are outside this model.
\* CMGT calls sign_extend( a, esize ): for an element of 8, 16 or 32 bits the bit at
\* position esize is clear and the value comes back unchanged; for 64 bits the shifts
\* by 65 and 64 are undefined, and the host either uses the count modulo 64 ("masks":
\* the value becomes 0 - (a & 1)) or shifts everything out ("clears": a is unchanged)
case_0e(s, op, hi8) ==
    LET Q == opbits(op, 30, 1)
        imm5 == opbits(op, 16, 5)
        bit15 == opbits(op, 15, 1) = 1
        bits14_11 == opbits(op, 11, 4)
        bit10 == opbits(op, 10, 1) = 1
        bit21 == opbits(op, 21, 1) = 1
        bit23 == opbits(op, 23, 1) = 1
        bits23_21 == opbits(op, 21, 3)
        n == opbits(op, 5, 5)
        d == opbits(op, 0, 5)
        datasize == 64 * Pow2(Q)
        bits20_16 == opbits(op, 16, 5)
        bits14_10 == opbits(op, 10, 5)
        bits12_10 == opbits(op, 10, 3)
        m == imm5
        esize == 8 * Pow2(opbits(op, 22, 2))
        elements == datasize \div esize
        part == opbits(op, 14, 1)
        pairs == elements \div 2
        \* memcpy of one element of register r at element index i to element index at of target
        elem(r, i, at) == Shl(get_bits(s.vregs[r], i * esize, esize), at * esize, 128)
        zip == UNION { elem(n, part * pairs + p, 2 * p) \cup elem(m, part * pairs + p, 2 * p + 1) :
                         p \in 0..(pairs - 1) }
        uzp == UNION { elem(n, e * 2 + part, e) \cup elem(m, e * 2 + part, pairs + e) :
                         e \in 0..(pairs - 1) }
        lane(r, e) == get_bits(s.vregs[r], e * esize, esize)
        greater(e, host) ==
            IF esize < 64 THEN ULT(lane(m, e), lane(n, e))
            ELSE IF host = "masks" THEN 0 \notin lane(n, e) /\ 0 \in lane(m, e)
            ELSE SLT(lane(m, e), lane(n, e), 64)
        cmgt(host) ==
            UNION { IF e % 2 = 0
                    THEN (IF greater(e, host) THEN Shl(Ones(esize), e * esize, 128) ELSE {})
                    ELSE Shl(lane(d, e), e * esize, 128) : e \in 0..(elements - 1) }
                \cup { i \in s.vregs[d] : i >= datasize }
        after ==
            \/ bits23_21 = 5 /\ ~ bit15 /\ bits14_11 = 3 /\ bit10
            \/ bits23_21 = 0 /\ ~ bit15 /\ bits14_11 \in {1, 0} /\ bit10
            \/ bit21 /\ bit15 /\ bits14_11 = 3 /\ ~ bit10 /\ bits20_16 = 0
        between ==
            \/ bits23_21 = 0 /\ ~ bit15 /\ bits12_10 = 0
            \/ ~ bit21 /\ ~ bit15 /\ bits14_11 \in {13, 5} /\ ~ bit10
            \/ ~ bit23 /\ bit21 /\ bit15 /\ bits14_11 \in {10, 9} /\ bit10
            \/ ~ bit23 /\ bit21 /\ bits20_16 = 1 /\ bit15 /\ bits14_10 = 22
            \/ hi8 = 78 /\ bits23_21 = 0 /\ ~ bit15 /\ bits14_11 = 3 /\ bit10
            \/ ~ bit21 /\ ~ bit15 /\ bits14_11 \in {7, 5} /\ bit10
            \/ bits23_21 = 1 /\ ~ bit15 /\ bits14_11 = 3 /\ bit10
    IN IF bit21 /\ bit15 /\ bits14_11 = 8 /\ ~ bit10 THEN { [s EXCEPT !.out = "unmodelled"] }
       ELSE IF ~ bit21 /\ ~ bit15 /\ bits14_10 \in {30, 14}
       THEN { [s EXCEPT !.vregs[d] = zip, !.enc = IF part = 1 THEN "ZIP2" ELSE "ZIP1"] }
       ELSE IF between THEN { [s EXCEPT !.out = "unmodelled"] }
       ELSE IF ~ bit21 /\ ~ bit15 /\ bits14_11 \in {3, 11} /\ ~ bit10
       THEN { [s EXCEPT !.vregs[d] = uzp, !.enc = IF part = 1 THEN "UZP2" ELSE "UZP1"] }
       ELSE IF after THEN { [s EXCEPT !.out = "unmodelled"] }
       ELSE IF bit21 /\ ~ bit15 /\ bits14_11 = 6 /\ bit10
       THEN { [s EXCEPT !.vregs[d] = cmgt(host), !.enc = "CMGT"] :
                host \in IF esize < 64 THEN {"any"} ELSE {"masks", "clears"} }
       ELSE { [s EXCEPT !.out = "unmodelled"] }

\* gen_bitmask( n ), get_elem_bits( val, c, container_size ), reverse_bytes( val, n )
gen_bitmask(n) == Ones(n)
get_elem_bits(val, c, container_size) == val \cap Shl(gen_bitmask(container_size), c * 8, 64)
reverse_bytes(val, n) ==
    LET sw == n \div 8
    IN UNION { Shl(Shr(get_elem_bits(val, x, 8), x * 8), 8 * ((sw - 1) - x), 64) : x \in 0..(sw - 1) }

\* case 0x5a, 0xda: REV (bits15_10 2 or 3); CSINV / CSNEG, RBIT and CLZ are outside this
\* model
case_5a(s, op, hi8) ==
    LET xregs == HiBit(hi8, 128)
        opc == opbits(op, 10, 2)
        data_size == 32 * Pow2(opbits(op, 31, 1))
        container_size == 8 * Pow2(opc)
        containers == data_size \div container_size
        bits23_21 == opbits(op, 21, 3)
        bits15_10 == opbits(op, 10, 6)
        n == opbits(op, 5, 5)
        d == opbits(op, 0, 5)
        nval == val_reg_or_zr(s, n)
        rev == UNION { get_elem_bits(reverse_bytes(get_elem_bits(nval, c, container_size),
                                                   container_size), c, container_size)
                       : c \in 0..(containers - 1) }
        result == IF xregs THEN rev ELSE Trunc(rev, 32)
    IN IF bits23_21 = 4 THEN { [s EXCEPT !.out = "unmodelled"] }
       ELSE IF bits23_21 = 6
       THEN IF bits15_10 \in {0, 4} THEN { [s EXCEPT !.out = "unmodelled"] }
            ELSE IF bits15_10 \in {2, 3}
            THEN { [ (IF d # 31 THEN SetReg(Use31(s, n, nval), d, result) ELSE Use31(s, n, nval))
                     EXCEPT !.enc = "REV", !.zrd = d = 31 ] }
            ELSE { unhandled(s) }
       ELSE { unhandled(s) }

\* case 0x2e, 0x6e: the if / else if chain in its order; the arm INS <Vd>.<Ts>[<index1>],
\* <Vn>.<Ts>[<index2>] (a memcpy of byte_width bytes between the two registers), the
\* other arms are outside this model
case_2e(s, op, hi8) ==
    LET n == opbits(op, 5, 5)
        d == opbits(op, 0, 5)
        bit23 == opbits(op, 23, 1) = 1
        bit21 == opbits(op, 21, 1) = 1
        bit15 == opbits(op, 15, 1) = 1
        bit10 == opbits(op, 10, 1) = 1
        opcode == opbits(op, 10, 6)
        bits23_21 == opbits(op, 21, 3)
        opcode7 == opbits(op, 10, 7)
        bits20_17 == opbits(op, 17, 4)
        imm5 == get_bits(op, 16, 5)
        imm4 == get_bits(op, 11, 5)
        \* << index1, index2, byte_width >>
        sel == IF 0 \in imm5 THEN << ToNat(get_bits(imm5, 1, 4)), ToNat(imm4), 1 >>
               ELSE IF 1 \in imm5
               THEN << ToNat(get_bits(imm5, 2, 3)), ToNat(get_bits(imm4, 1, 3)), 2 >>
               ELSE IF 2 \in imm5
               THEN << ToNat(get_bits(imm5, 3, 2)), ToNat(get_bits(imm4, 2, 2)), 4 >>
               ELSE IF 3 \in imm5 THEN << ToNat(get_bits(imm5, 3, 1)), 0, 8 >>
               ELSE << 0, 0, 0 >>
        index1 == sel[1]
        index2 == sel[2]
        byte_width == sel[3]
        to == { i \in 0..127 : i >= 8 * index1 * byte_width /\ i < 8 * (index1 + 1) * byte_width }
        copied == Shl(get_bits(s.vregs[n], 8 * index2 * byte_width, 8 * byte_width),
                      8 * index1 * byte_width, 128)
    IN IF \/ ~ bit23 /\ bit21 /\ opcode = 53
          \/ bit21 /\ opcode = 17
          \/ bit21 /\ bits20_17 = 8 /\ opcode7 = 14
       THEN { [s EXCEPT !.out = "unmodelled"] }
       ELSE IF hi8 = 110 /\ bits23_21 = 0 /\ ~ bit15 /\ bit10
       THEN { [s EXCEPT !.vregs[d] = (@ \ to) \cup copied, !.enc = "INS_element"] }
       ELSE { [s EXCEPT !.out = "unmodelled"] }

\* arm64_invoke_svc: the host's supervisor hook writes its result to x0 and may ask for
\* the end of the emulation (process exit)
invoke_svc(s) ==
    { [ s EXCEPT !.svcs = @ + 1, !.regs[0] = Zero,
                 !.g_State = IF e THEN SetBit(@, stateEndEmulation) ELSE @ ] : e \in BOOLEAN }

\* an SVC that jumps back to the head of the loop after the hook (a continue)
case_d4_Continues(s, op) ==
    IF opbits(op, 23, 1) = 0 /\ opbits(op, 21, 2) = 0
    THEN IF opbits(op, 2, 3) = 0 /\ opbits(op, 0, 2) = 1
         THEN { [ x EXCEPT !.out = "continue" ] : x \in invoke_svc(Enc(s, "SVC")) }
         ELSE { unhandled(s) }
    ELSE { unhandled(s) }

\* case 0xd4: SVC
case_d4(s, op) ==
    IF opbits(op, 23, 1) = 0 /\ opbits(op, 21, 2) = 0
    THEN IF opbits(op, 2, 3) = 0 /\ opbits(op, 0, 2) = 1 THEN invoke_svc(Enc(s, "SVC"))
         ELSE { unhandled(s) }
    ELSE { unhandled(s) }

\* what the host clock may read for CNTVCT_EL0
ClockVals == { {5}, {5, 40} }

\* case 0xd5: MSR / MRS, NOP, DMB, DC ZVA
case_d5(s, op) ==
    LET l == opbits(op, 21, 1) = 1
        id == << opbits(op, 19, 2), opbits(op, 12, 4), opbits(op, 16, 3),
                 opbits(op, 8, 4), opbits(op, 5, 3) >>          \* op0, n, op1, m, op2
        t == opbits(op, 0, 5)
        Mrs(name, v) == [ SetReg(s, t, v) EXCEPT !.enc = name, !.zrd = t = 31 ]
    IN IF opbits(op, 22, 2) # 0 THEN { unhandled(s) }
       ELSE IF op = W32(54531, 8223) THEN { Enc(s, "NOP") }
       ELSE IF opbits(op, 12, 20) = 872499 /\ opbits(op, 0, 8) = 191 THEN { Enc(s, "DMB") }
       ELSE IF l
       THEN CASE id = << 3, 14, 3, 0, 2 >> -> { Mrs("MRS_CNTVCT", v) : v \in ClockVals }
              [] id = << 3, 14, 3, 0, 0 >> -> { Mrs("MRS_CNTFRQ", FromNat(1000000000)) }
              [] id = << 3, 0, 3, 0, 7 >> -> { Mrs("MRS_DCZID", FromNat(4)) }
              [] id = << 3, 0, 0, 0, 0 >> -> { Mrs("MRS_MIDR", W32(22874, 21577)) }
              [] id = << 3, 13, 3, 0, 2 >> -> { Mrs("MRS_TPIDR", s.tpidr_el0) }
              [] id = << 3, 4, 3, 4, 0 >> -> { Mrs("MRS_FPCR", Zero) }
              [] OTHER -> { unhandled(s) }
       ELSE CASE id = << 3, 13, 3, 0, 2 >> ->
                   { [ Use31(s, t, s.regs[t]) EXCEPT !.enc = "MSR_TPIDR", !.tpidr_el0 = s.regs[t] ] }
              [] id = << 0, 2, 3, 4, 2 >> -> { Enc(s, "BTI") }
              [] id = << 1, 7, 3, 4, 1 >> ->
                   Store(Enc(Use31(s, t, s.regs[t]), "DC_ZVA"), s.regs[t], 128, Zero)
              [] id = << 0, 2, 3, 0, 7 >> -> { Enc(s, "XPACLRI") }
              [] id = << 3, 4, 3, 4, 0 >> -> { Enc(s, "MSR_FPCR") }
              [] OTHER -> { unhandled(s) }

\* the top bytes the dispatch switch has a case for
HandledTopBytes ==
    { 0, 8, 10, 11, 13, 14, 15, 16, 17, 18, 19, 20, 21, 22, 23, 24, 26, 27, 30, 31,
      40, 41, 42, 43, 44, 45, 46, 47, 48, 49, 50, 51, 52, 53, 54, 55, 56, 57, 58, 60, 61,
      72, 74, 75, 76, 77, 78, 79, 80, 81, 82, 83, 84, 88, 90, 94,
      104, 105, 106, 107, 108, 109, 110, 111, 112, 113, 114, 120, 121, 122, 124, 125, 126, 127,
      136, 138, 139, 144, 145, 146, 147, 148, 149, 150, 151, 154, 155, 158,
      168, 169, 170, 171, 172, 173, 176, 177, 178, 179, 180, 181, 182, 183, 184, 185, 186,
      188, 189, 200, 202, 203, 208, 209, 210, 211, 212, 213, 214, 218,
      234, 235, 240, 241, 242, 248, 249, 250, 252, 253 }

\* switch ( hi8 ): the families of this model, the cases outside it, and default
Dispatch(s, op) ==
    LET hi8 == opbits(op, 24, 8)
    IN CASE hi8 = 0 -> case_00(s, op)
         [] hi8 \in {10, 106, 138, 234} -> case_0a(s, op, hi8)
         [] hi8 \in {11, 43, 75, 107, 139, 171, 203, 235} -> case_0b(s, op, hi8)
         [] hi8 \in {16, 48, 80, 112} -> case_10(s, op)
         [] hi8 \in {17, 81, 145, 209} -> case_11(s, op, hi8)
         [] hi8 \in {18, 146} -> case_12(s, op, hi8)
         [] hi8 \in {19, 147, 51, 179, 83, 211} -> case_13(s, op, hi8)
         [] hi8 \in {20, 21, 22, 23} -> case_14(s, op)
         [] hi8 \in {26, 154} -> case_1a(s, op, hi8)
         [] hi8 \in {52, 53, 180, 181} -> case_34(s, op, hi8)
         [] hi8 \in {54, 55, 182, 183} -> case_36(s, op, hi8)
         [] hi8 \in {56, 120, 184, 248} -> case_38(s, op, hi8)
         [] hi8 \in {57, 121, 185, 249} -> case_39(s, op, hi8)
         [] hi8 \in {58, 186, 122, 250} -> case_3a(s, op, hi8)
         [] hi8 \in {14, 78} -> case_0e(s, op, hi8)
         [] hi8 \in {46, 110} -> case_2e(s, op, hi8)
         [] hi8 \in {90, 218} -> case_5a(s, op, hi8)
         [] hi8 \in {15, 47, 79, 111, 127} -> case_0f(s, op, hi8)
         [] hi8 \in {30, 158} -> case_1e(s, op, hi8)
         [] hi8 = 94 -> case_5e(s, op)
         [] hi8 \in {40, 168, 41, 169, 104, 105} -> case_28(s, op, hi8)
         [] hi8 \in {44, 108, 172, 45, 109, 173} -> case_2c(s, op, hi8)
         [] hi8 \in {82, 210} -> case_52(s, op, hi8)
         [] hi8 = 84 -> case_54(s, op)
         [] hi8 \in {136, 200} -> case_88(s, op, hi8)
         [] hi8 \in {144, 176, 208, 240} -> case_90(s, op)
         [] hi8 \in {148, 149, 150, 151} -> case_94(s, op)
         [] hi8 = 212 -> case_d4(s, op)
         [] hi8 = 213 -> case_d5(s, op)
         [] hi8 = 214 -> case_d6(s, op)
         [] hi8 \in HandledTopBytes -> { [s EXCEPT !.out = "unmodelled"] }
         [] OTHER -> { unhandled(s) }

\* ------------------------------------------------------------ the run loop
stack_size == 16 * StackBlocks
stack_top == Add(BaseAddr, FromNat(MemSize - 16), 64)

\* a renderer that leaves the link register holding the address it printed
trace_state_KeepsTarget(s, op) ==
    IF opbits(op, 24, 8) \in {20, 21, 22, 23}
    THEN { SetReg(s, 30, Add(s.pc, sign_extend(Shl(get_bits(op, 0, 26), 2, 64), 27), 64)) }
    ELSE { s }

\* trace_state(): the renderer of the instruction about to be executed.  It reads pc, op,
\* the flags and the registers, writes to the trace sink only, and ends in unhandled()
\* for the words its switch does not render.  The arms of the branches, ADR, MOVZ, SVC
\* and the system instructions, and the default arm; the other arms are outside this model
trace_state(s, op) ==
    LET hi8 == opbits(op, 24, 8)
        id == << opbits(op, 19, 2), opbits(op, 12, 4), opbits(op, 16, 3),
                 opbits(op, 8, 4), opbits(op, 5, 3) >>          \* op0, n, op1, m, op2
        mrs == { << 3, 14, 3, 0, 2 >>, << 3, 14, 3, 0, 0 >>, << 3, 0, 3, 0, 7 >>,
                 << 3, 0, 0, 0, 0 >>, << 3, 13, 3, 0, 2 >>, << 3, 4, 3, 4, 0 >> }
        msr == { << 3, 13, 3, 0, 2 >>, << 0, 2, 3, 4, 2 >>, << 1, 7, 3, 4, 1 >>,
                 << 0, 2, 3, 0, 7 >>, << 3, 4, 3, 4, 0 >> }
        rendered == { s }
    IN CASE hi8 = 0 -> IF opbits(op, 16, 8) = 0 THEN rendered ELSE { unhandled(s) }
         [] hi8 \in {20, 21, 22, 23, 84, 148, 149, 150, 151} -> rendered
         [] hi8 \in {16, 48, 80, 112, 54, 55, 182, 183, 52, 180, 53, 181} -> rendered
         [] hi8 \in {82, 210} ->
              IF opbits(op, 23, 1) = 1 THEN rendered ELSE { [s EXCEPT !.out = "unmodelled"] }
         [] hi8 = 212 ->
              IF opbits(op, 23, 1) = 0 /\ opbits(op, 21, 2) = 0
                 /\ ~ (opbits(op, 2, 3) = 0 /\ opbits(op, 0, 2) = 1)
              THEN { unhandled(s) } ELSE rendered
         [] hi8 = 213 ->
              IF opbits(op, 22, 2) # 0 THEN { unhandled(s) }
              ELSE IF op = W32(54531, 8223) THEN rendered
              ELSE IF opbits(op, 12, 20) = 872499 /\ opbits(op, 0, 8) = 191 THEN rendered
              ELSE IF opbits(op, 21, 1) = 1
              THEN IF id \in mrs THEN rendered ELSE { unhandled(s) }
              ELSE IF id \in msr THEN rendered ELSE { unhandled(s) }
         [] hi8 = 214 ->
              IF opbits(op, 23, 1) # 0 \/ opbits(op, 12, 9) # 496
                 \/ opbits(op, 11, 1) # 0 \/ opbits(op, 10, 1) # 0 \/ opbits(op, 21, 2) = 3
              THEN { unhandled(s) } ELSE rendered
         [] hi8 \notin HandledTopBytes -> { unhandled(s) }
         [] OTHER -> { [s EXCEPT !.out = "unmodelled"] }

\* the call of trace_state() in the loop, when the trace-instructions bit is set
Traced(s, op) ==
    IF TestBit(s.g_State, stateTraceInstructions)
    THEN trace_state([s EXCEPT !.traced = TRUE], op)
    ELSE { s }

\* the #ifndef NDEBUG checks at the head of the loop: TRUE when one of them terminates
HeadCheckFails(s) ==
    \/ ULE(s.regs[31], Sub(stack_top, FromNat(stack_size), 64))
    \/ ULT(stack_top, s.regs[31])
    \/ ULT(s.pc, BaseAddr)
    \/ ULE(Sub(Add(BaseAddr, MemSizeBV, 64), FromNat(stack_size), 64), s.pc)
    \/ Trunc(s.regs[31], 4) # Zero

\* a loop body that polls g_State before the fetch of op
LoopBody_PollsFirst(s) ==
    IF s.checked /\ HeadCheckFails(s) THEN { hard_termination(s) }
    ELSE IF s.g_State # 0 /\ TestBit(s.g_State, stateEndEmulation)
         THEN { [s EXCEPT !.g_State = ClearBit(@, stateEndEmulation), !.out = "ended"] }
         ELSE UNION {
                IF ~ Alive(l.st) THEN { [l.st EXCEPT !.fetched = TRUE] }
                ELSE UNION { IF Alive(x) THEN Dispatch(x, l.val) ELSE { x }
                             : x \in Traced([l.st EXCEPT !.op = l.val, !.fetched = TRUE], l.val) }
                : l \in Load(s, s.pc, 4) }

\* one pass through the body of the do-while of run(), up to its break or continue
LoopBody(s) ==
    IF s.checked /\ HeadCheckFails(s) THEN { hard_termination(s) }
    ELSE UNION {
           IF ~ Alive(l.st) THEN { [l.st EXCEPT !.fetched = TRUE] }
           ELSE LET f == [l.st EXCEPT !.op = l.val, !.fetched = TRUE]
                IN IF f.g_State # 0 /\ TestBit(f.g_State, stateEndEmulation)
                   THEN { [f EXCEPT !.g_State = ClearBit(@, stateEndEmulation), !.out = "ended"] }
                   ELSE UNION { IF Alive(x) THEN Dispatch(x, l.val) ELSE { x } : x \in Traced(f, l.val) }
           : l \in Load(s, s.pc, 4) }

\* what an iteration leaves in `last`: what it did, and the sp, pc and cycle count before it
NoStep ==
    [ op |-> Zero, out |-> "none", enc |-> "none", zrd |-> FALSE, wb31 |-> FALSE,
      used31 |-> {}, oob |-> FALSE, svcs |-> 0, fetched |-> FALSE, ea |-> NoEA,
      vd |-> 0, vlen |-> 0, traced |-> FALSE, endreq |-> FALSE,
      pre_sp |-> Zero, pre_pc |-> Zero, pre_cycles |-> 0 ]

StepOf(o) ==
    [ op |-> o.op, out |-> o.out, enc |-> o.enc, zrd |-> o.zrd, wb31 |-> o.wb31,
      used31 |-> o.used31, oob |-> o.oob, svcs |-> o.svcs, fetched |-> o.fetched,
      ea |-> o.ea, vd |-> o.vd, vlen |-> o.vlen, traced |-> o.traced,
      endreq |-> TestBit(g_State, stateEndEmulation),
      pre_sp |-> regs[31], pre_pc |-> pc, pre_cycles |-> cycles_so_far ]

\* run( max_cycles ): entry into the loop
Run ==
    /\ mode = "idle"
    /\ runs < MaxRuns
    /\ \E max_cycles \in 0..MaxBudget :
          /\ start_cycles' = cycles_so_far
          /\ target_cycles' = cycles_so_far + max_cycles
    /\ mode' = "running"
    /\ iter' = 0
    /\ executed' = 0
    /\ runs' = runs + 1
    /\ last' = NoStep
    /\ UNCHANGED << regs, pc, fN, fZ, fC, fV, tpidr_el0, vregs, cycles_so_far, mem, g_State,
                    checked, retval, fin, fout >>

\* the tail of the loop after a body that ended in out: pc += 4; cycles_so_far++ on a
\* break, and the test of the do-while; a continue jumps straight to the test
NextCycles(out) == IF out = "break" THEN cycles_so_far + 1 ELSE cycles_so_far
NextMode(out) ==
    CASE out = "fatal" -> "fatal"
      [] out = "crash" -> "crashed"
      [] out = "unmodelled" -> "unmodelled"
      [] out = "hang" -> "hung"
      [] out = "ended" -> "idle"
      [] OTHER -> IF NextCycles(out) < target_cycles THEN "running" ELSE "idle"

\* one iteration of the do-while of run(), and the return when the loop ends
Iterate ==
    /\ mode = "running"
    /\ iter < MaxIter
    /\ \E o \in LoopBody(Machine) :
          /\ regs' = o.regs
          /\ pc' = IF o.out = "break" THEN Add(o.pc, {2}, 64) ELSE o.pc
          /\ fN' = o.fN /\ fZ' = o.fZ /\ fC' = o.fC /\ fV' = o.fV
          /\ tpidr_el0' = o.tpidr_el0
          /\ vregs' = o.vregs
          /\ mem' = o.mem
          /\ g_State' = o.g_State
          /\ cycles_so_far' = NextCycles(o.out)
          /\ mode' = NextMode(o.out)
          /\ retval' = IF NextMode(o.out) = "idle" THEN NextCycles(o.out) - start_cycles
                       ELSE retval
          /\ executed' = IF Alive(o) THEN executed + 1 ELSE executed
          /\ last' = StepOf(o)
    /\ iter' = iter + 1
    /\ UNCHANGED << checked, start_cycles, target_cycles, runs, fin, fout >>

\* end_emulation(): the host asks the loop to return, at any time
EndEmulation ==
    /\ mode \in {"idle", "running"}
    /\ ~ TestBit(g_State, stateEndEmulation)
    /\ g_State' = SetBit(g_State, stateEndEmulation)
    /\ UNCHANGED << regs, pc, fN, fZ, fC, fV, tpidr_el0, vregs, cycles_so_far, mem, checked,
                    mode, start_cycles, target_cycles, retval, iter, executed, runs, last, fin, fout >>

Next == Run \/ Iterate \/ EndEmulation

\* trace_instructions( t ): the host switches the tracing of instructions on or off
TraceInstructions ==
    /\ mode \in {"idle", "running"}
    /\ \E t \in BOOLEAN :
          /\ t # TestBit(g_State, stateTraceInstructions)
          /\ g_State' = IF t THEN SetBit(g_State, stateTraceInstructions)
                        ELSE ClearBit(g_State, stateTraceInstructions)
    /\ UNCHANGED << regs, pc, fN, fZ, fC, fV, tpidr_el0, vregs, cycles_so_far, mem, checked,
                    mode, start_cycles, target_cycles, retval, iter, executed, runs, last, fin, fout >>

NextTraced == Next \/ TraceInstructions

\* ------------------------------------------------------------ guest programs
\* the instruction word with the given fields, each << value, low bit >>
Ins(parts) == UNION { Shl(FromNat(f[1]), f[2], 32) : f \in parts }

\* the guest buffer holding the words of p at BaseAddr, then zeroes, with a block of
\* data bytes 0xa0 .. 0xaf at offset 32
Image(p) ==
    [ o \in 0..(MemSize - 1) |->
        IF o < 4 * Len(p) THEN ToNat(get_bits(p[(o \div 4) + 1], 8 * (o % 4), 8))
        ELSE IF o >= 32 /\ o < 48 THEN 128 + o
        ELSE 0 ]

\* the state after the constructor
Constructed ==
    /\ regs = [ r \in 0..31 |-> IF r = 31 THEN stack_top ELSE Zero ]
    /\ pc = BaseAddr
    /\ fN = FALSE /\ fZ = FALSE /\ fC = FALSE /\ fV = FALSE
    /\ tpidr_el0 = Zero
    /\ vregs = [ r \in 0..31 |-> Zero ]
    /\ cycles_so_far = 0
    /\ g_State = 0
    /\ mode = "idle"
    /\ start_cycles = 0
    /\ target_cycles = 0
    /\ retval = 0
    /\ iter = 0
    /\ executed = 0
    /\ runs = 0
    /\ last = NoStep

NoCall == [f |-> "none", x |-> Zero, y |-> Zero]
NoResult == [f |-> "none", result |-> Zero, fN |-> FALSE, fZ |-> FALSE, fC |-> FALSE, fV |-> FALSE]

\* the machine for each program of P and each build
InitWith(P) ==
    /\ checked \in BOOLEAN
    /\ mem \in { Image(p) : p \in P }
    /\ Constructed
    /\ fin = NoCall
    /\ fout = NoResult

B(imm26) == Ins({ << 20, 24 >>, << imm26, 0 >> })
BL(imm26) == Ins({ << 148, 24 >>, << imm26, 0 >> })
Bcond(cond, imm19) == Ins({ << 84, 24 >>, << imm19, 5 >>, << cond, 0 >> })
CBZ(t, imm19) == Ins({ << 180, 24 >>, << imm19, 5 >>, << t, 0 >> })
CBNZ(t, imm19) == Ins({ << 181, 24 >>, << imm19, 5 >>, << t, 0 >> })
TBNZ(t, bit, imm14) == Ins({ << 55, 24 >>, << bit, 19 >>, << imm14, 5 >>, << t, 0 >> })
TBZ(t, bit, imm14) == Ins({ << 54, 24 >>, << bit, 19 >>, << imm14, 5 >>, << t, 0 >> })
BR(n) == Ins({ << 214, 24 >>, << 31, 16 >>, << n, 5 >> })
BLR(n) == Ins({ << 214, 24 >>, << 1, 21 >>, << 31, 16 >>, << n, 5 >> })
RET(n) == Ins({ << 214, 24 >>, << 2, 21 >>, << 31, 16 >>, << n, 5 >> })
ADR(d, imm19) == Ins({ << 16, 24 >>, << imm19, 5 >>, << d, 0 >> })
NOP == W32(54531, 8223)
SVC == Ins({ << 212, 24 >>, << 1, 0 >> })
MOVZ(d, imm16, hw) == Ins({ << 210, 24 >>, << 1, 23 >>, << hw, 21 >>, << imm16, 5 >>, << d, 0 >> })
MOVN(d, imm16, hw) == Ins({ << 146, 24 >>, << 1, 23 >>, << hw, 21 >>, << imm16, 5 >>, << d, 0 >> })

\* programs that exercise the loop: self-loops, taken and untaken branches, calls
LoopPrograms ==
    { << B(0) >>,
      << NOP, B(0) >>,
      << B(2), NOP, NOP, B(0) >>,
      << NOP, NOP, NOP, B(0) >>,
      << Bcond(0, 2), Bcond(1, 2), NOP, B(0) >>,
      << CBZ(0, 2), NOP, CBNZ(0, 2), B(0) >>,
      << TBZ(0, 3, 2), NOP, TBNZ(0, 3, 2), B(0) >>,
      << ADR(0, 3), BR(0), NOP, B(0) >>,
      << ADR(1, 3), BLR(1), NOP, RET(30) >>,
      << BL(2), B(0), RET(30) >>,
      << SVC, NOP, B(0) >>,
      << MOVZ(0, 1, 0), CBNZ(0, 2), NOP, B(1048575) >>,
      << BR(0) >>,
      << NOP, NOP >> }

Init == InitWith(LoopPrograms)
Spec == Init /\ [][Next]_vars

\* ------------------------------------------------------------ the loop: C1 .. C4
max_cycles == target_cycles - start_cycles

\* C1: a call run(max_cycles) during which the end-emulation bit is never set returns
\* after executing at most max_cycles instructions, whatever the guest program is,
\* a program of taken branches only included.  Stated for max_cycles >= 1: while the
\* call is in progress and the bit is clear, the instructions executed by this call
\* number at most max_cycles.
C1_RunExecutesAtMostMaxCycles ==
    (mode = "running" /\ max_cycles >= 1 /\ ~ TestBit(g_State, stateEndEmulation))
        => executed <= max_cycles

\* C2: every instruction run() executes, a taken branch or not, increases the cycle
\* counter by exactly 1, and leaves pc at the old pc + 4 when it is not a taken branch.
C2_EveryInstructionCountsOneCycle ==
    (last.out \in {"break", "continue"})
        => /\ cycles_so_far = last.pre_cycles + 1
           /\ (last.out = "break" => pc = Add(last.pre_pc, {2}, 64))

Near(b) ==
    { Add(b, FromNat(k), 64) : k \in 0..MaxSmall }
        \cup { Sub(b, FromNat(k + 1), 64) : k \in 0..MaxSmall }
Operands64 == UNION { Near(b) : b \in { Zero, {31}, {32}, {63}, {32, 63} } }

InitSub ==
    /\ checked = FALSE
    /\ mem = Image(<< >>)
    /\ Constructed
    /\ fin \in { [f |-> "sub64", x |-> x, y |-> y] : x \in Operands64, y \in Operands64 }
    /\ fout = NoResult

\* sub64( x, y, true ): the call, its result and the flags it sets
CallSub64 ==
    /\ fin.f = "sub64"
    /\ fout.f = "none"
    /\ LET r == sub64(fin.x, fin.y)
       IN fout' = [ f |-> "sub64", result |-> r.result,
                    fN |-> r.fN, fZ |-> r.fZ, fC |-> r.fC, fV |-> r.fV ]
    /\ UNCHANGED << regs, pc, fN, fZ, fC, fV, tpidr_el0, vregs, cycles_so_far, mem, g_State,
                    checked, mode, start_cycles, target_cycles, retval, iter, executed,
                    runs, last, fin >>

NextSub == CallSub64
SpecSub == InitSub /\ [][NextSub]_vars

\* the flags of the AArch64 SUBS of x and y, from the difference and the comparisons
SubsFlags(x, y) ==
    LET diff == Sub(x, y, 64)
    IN [ fN |-> 63 \in diff,
         fZ |-> x = y,
         fC |-> ULE(y, x),
         fV |-> ((63 \in x) # (63 \in y)) /\ ((63 \in diff) # (63 \in x)) ]

\* C10: the flags of add_with_carry64(x, ~y, 1) are the SUBS flags of x and y: N the
\* top bit of x - y, Z iff x = y, C iff x >= y unsigned, V iff x - y overflows as a
\* signed 64-bit subtraction; equal operands give Z=1, N=0, C=1, V=0.
C10_SubFlagsAreSubsFlags ==
    fout.f = "sub64" =>
        /\ fout.result = Sub(fin.x, fin.y, 64)
        /\ Flags(fout) = Flags(SubsFlags(fin.x, fin.y))
        /\ fin.x = fin.y => Flags(fout) = << FALSE, TRUE, TRUE, FALSE >>

\* a subtraction of 0 (y = 0, so ~y is all ones), one that borrows, and one that
\* overflows are among the calls; this one is the subtraction of 0 from 2^63
C10_Witness ==
    /\ fout.f = "sub64" /\ fin.x = {63} /\ fin.y = Zero
    /\ Flags(fout) = << TRUE, FALSE, TRUE, FALSE >>

\* ------------------------------------------------------------ integer programs
\* encoders: sf is 1 for the X form and 0 for the W form
ADDr(sf, d, n, m) == Ins({ << 11 + 128 * sf, 24 >>, << m, 16 >>, << n, 5 >>, << d, 0 >> })
SUBr(sf, d, n, m) == Ins({ << 75 + 128 * sf, 24 >>, << m, 16 >>, << n, 5 >>, << d, 0 >> })
SUBSr(sf, d, n, m) == Ins({ << 107 + 128 * sf, 24 >>, << m, 16 >>, << n, 5 >>, << d, 0 >> })
ANDr(sf, d, n, m) == Ins({ << 10 + 128 * sf, 24 >>, << m, 16 >>, << n, 5 >>, << d, 0 >> })
ANDSr(sf, d, n, m) == Ins({ << 106 + 128 * sf, 24 >>, << m, 16 >>, << n, 5 >>, << d, 0 >> })
BICr(sf, d, n, m) == Ins({ << 10 + 128 * sf, 24 >>, << 1, 21 >>, << m, 16 >>, << n, 5 >>, << d, 0 >> })
ADRP(d, imm19) == Ins({ << 144, 24 >>, << imm19, 5 >>, << d, 0 >> })
ADRb(d, off) == Ins({ << 16, 24 >>, << off % 4, 29 >>, << off \div 4, 5 >>, << d, 0 >> })
MRS_TPIDR(t) == W32(54587, 53312 + t)
MSR_TPIDR(t) == W32(54555, 53312 + t)
MRS_CNTFRQ(t) == W32(54587, 57344 + t)
DC_ZVA(t) == W32(54539, 29728 + t)
UDIV(sf, d, n, m) ==
    Ins({ << 26 + 128 * sf, 24 >>, << 6, 21 >>, << m, 16 >>, << 2, 10 >>, << n, 5 >>, << d, 0 >> })
SDIV(sf, d, n, m) ==
    Ins({ << 26 + 128 * sf, 24 >>, << 6, 21 >>, << m, 16 >>, << 3, 10 >>, << n, 5 >>, << d, 0 >> })
CSEL(sf, d, n, m, cond) ==
    Ins({ << 26 + 128 * sf, 24 >>, << 4, 21 >>, << m, 16 >>, << cond, 12 >>, << n, 5 >>, << d, 0 >> })
\* size is 0 (B), 1 (H), 2 (W), 3 (X); option is 0 (unscaled), 1 (post-index), 3 (pre-index)
LDRi(size, t, n, imm9, option) ==
    Ins({ << 56 + 64 * size, 24 >>, << 2, 21 >>, << imm9, 12 >>, << option, 10 >>, << n, 5 >>, << t, 0 >> })
STRi(size, t, n, imm9, option) ==
    Ins({ << 56 + 64 * size, 24 >>, << imm9, 12 >>, << option, 10 >>, << n, 5 >>, << t, 0 >> })
LDRr(size, t, n, m) ==
    Ins({ << 56 + 64 * size, 24 >>, << 3, 21 >>, << m, 16 >>, << 3, 13 >>, << 2, 10 >>, << n, 5 >>, << t, 0 >> })
STRr(size, t, n, m) ==
    Ins({ << 56 + 64 * size, 24 >>, << 1, 21 >>, << m, 16 >>, << 3, 13 >>, << 2, 10 >>, << n, 5 >>, << t, 0 >> })
\* words of handled families that are no implemented encoding
SBCS(sf, d, n, m) == Ins({ << 122 + 128 * sf, 24 >>, << m, 16 >>, << n, 5 >>, << d, 0 >> })
LDXP_like == Ins({ << 200, 24 >>, << 1, 21 >>, << 31, 16 >>, << 31, 10 >>, << 1, 5 >> })
DP2_unallocated(d) == Ins({ << 154, 24 >>, << 1, 21 >>, << d, 0 >> })
BR_unallocated == Ins({ << 214, 24 >>, << 1, 23 >>, << 31, 16 >> })

\* programs about the zero register, the division and the decoder; x0 .. x30 start
\* at 0 and the data block is at BaseAddr + 32
IntPrograms ==
    { << MOVZ(0, 9, 0), ADDr(1, 31, 0, 0), B(0) >>,
      << MOVZ(0, 9, 0), SUBr(1, 31, 0, 0), B(0) >>,
      << MOVZ(0, 9, 0), SUBSr(1, 31, 0, 0), ADDr(0, 31, 0, 0), B(0) >>,
      << ADRP(31, 1), B(0) >>,
      << MOVZ(31, 7, 0), MOVN(31, 7, 0), ADR(31, 2), B(0) >>,
      << MRS_CNTFRQ(31), B(0) >>,
      << MRS_TPIDR(31), B(0) >>,
      << ADR(1, 8), LDRi(3, 31, 1, 0, 0), B(0) >>,
      << ADR(1, 8), LDRi(0, 31, 1, 1, 1), B(0) >>,
      << ADR(1, 8), LDRi(1, 31, 1, 2, 3), B(0) >>,
      << ADR(1, 8), MOVZ(2, 4, 0), LDRr(2, 31, 1, 2), B(0) >>,
      << ADR(1, 8), STRi(3, 31, 1, 0, 0), STRr(2, 31, 1, 31), LDRi(3, 3, 1, 0, 0), B(0) >>,
      << MOVN(1, 0, 0), ANDr(1, 0, 31, 1), B(0) >>,
      << MOVN(1, 0, 0), ANDSr(0, 0, 31, 1), BICr(1, 2, 31, 0), B(0) >>,
      << MOVN(1, 0, 0), ANDr(1, 0, 1, 31), ADDr(1, 2, 31, 1), B(0) >>,
      << TBNZ(31, 6, 2), NOP, B(0) >>,
      << TBZ(31, 6, 2), NOP, B(0) >>,
      << CBZ(31, 2), NOP, CBNZ(31, 2), B(0) >>,
      << MSR_TPIDR(31), MRS_TPIDR(5), B(0) >>,
      << MOVZ(4, 3, 0), MSR_TPIDR(4), MRS_TPIDR(5), B(0) >>,
      << MOVZ(0, 7, 0), MOVN(2, 0, 0), SDIV(1, 2, 0, 1), B(0) >>,
      << MOVZ(0, 7, 0), MOVN(2, 0, 0), SDIV(0, 2, 0, 1), B(0) >>,
      << MOVZ(0, 7, 0), MOVN(2, 0, 0), UDIV(1, 2, 0, 1), B(0) >>,
      << MOVZ(0, 7, 0), MOVN(2, 0, 0), UDIV(0, 2, 0, 1), B(0) >>,
      << MOVZ(0, 7, 0), MOVN(2, 0, 0), SDIV(1, 2, 0, 31), UDIV(0, 3, 0, 31), B(0) >>,
      << MOVZ(0, 7, 0), MOVZ(1, 1, 2), UDIV(0, 2, 0, 1), B(0) >>,
      << MOVZ(0, 7, 0), MOVZ(1, 1, 2), MOVN(2, 0, 0), SDIV(0, 2, 0, 1), B(0) >>,
      << MOVZ(0, 7, 0), MOVZ(1, 2, 0), SDIV(1, 2, 0, 1), UDIV(0, 3, 0, 1), B(0) >>,
      << MOVZ(0, 7, 0), SUBSr(1, 1, 31, 0), CSEL(1, 2, 0, 1, 0), SDIV(1, 3, 0, 1), B(0) >>,
      << MOVZ(0, 7, 0), SBCS(0, 0, 0, 0), SBCS(1, 1, 0, 0), B(0) >>,
      << LDXP_like, B(0) >>,
      << DP2_unallocated(31), B(0) >>,
      << DP2_unallocated(3), B(0) >>,
      << BR_unallocated, B(0) >> }

InitInt == InitWith(IntPrograms)
SpecInt == InitInt /\ [][Next]_vars

\* the fields of the last instruction word
last_d == opbits(last.op, 0, 5)
last_m == opbits(last.op, 16, 5)
last_sf == opbits(last.op, 31, 1)

\* C5: an instruction whose destination field is 31 in zero-register context leaves
\* x[31], the stack pointer, as it was.
C5_ZeroRegisterDestinationKeepsSP ==
    (last.out = "break" /\ last.zrd /\ ~ last.wb31) => regs[31] = last.pre_sp

\* C6: a word of a handled family that matches no implemented encoding ends in the
\* fatal-termination hook: no instruction is retired without matching an encoding.
C6_UnmatchedWordIsFatal ==
    last.out = "break" => last.enc # "none"

\* the divisor the last instruction named, in the width of its form
last_divisor ==
    LET v == IF last_m = 31 THEN Zero ELSE regs[last_m]
    IN IF last_sf = 1 THEN v ELSE Trunc(v, 32)

\* C8: SDIV and UDIV with a zero divisor write 0 to the destination register, in the
\* 32-bit and the 64-bit form, whatever the destination held (stated for a destination
\* that is neither register 31 nor the divisor register).
C8_DivisionByZeroWritesZero ==
    (last.enc \in {"SDIV", "UDIV"} /\ last_d # 31 /\ last_d # last_m /\ last_divisor = Zero)
        => (last.out = "break" /\ regs[last_d] = Zero)

\* C9: an integer instruction that names register 31 as a source in zero-register
\* context reads 0 for it, never the stack pointer.
C9_ZeroRegisterSourceReadsZero ==
    (last.out \in {"break", "continue"}) => last.used31 \subseteq { Zero }

\* ------------------------------------------------------------ memory programs
\* x1 is the address of the last byte of the buffer, x2 the first byte after it,
\* x3 is 2^64 - 1; accesses of every width at and around the end of the buffer
LDST(size, n, imm9) ==
    { << ADRb(1, MemSize - 1), ADRb(2, MemSize), MOVN(3, 0, 0), LDRi(size, 0, n, imm9, 0), B(0) >>,
      << ADRb(1, MemSize - 1), ADRb(2, MemSize), MOVN(3, 0, 0), STRi(size, 3, n, imm9, 0), B(0) >> }
MemPrograms ==
    UNION { LDST(size, n, 0) : size \in 0..3, n \in 1..3 }
        \cup LDST(3, 1, 509) \cup LDST(2, 2, 509)
        \cup { << ADRb(1, MemSize - 1), DC_ZVA(1), B(0) >>,
               << ADRb(1, 32), DC_ZVA(1), B(0) >>,
               << LDRi(3, 0, 31, 8, 0), STRi(3, 0, 31, 9, 0), B(0) >> }

InitMem == InitWith(MemPrograms)
SpecMem == InitMem /\ [][Next]_vars

\* C7: in a checked build a typed load or store any byte of which lies outside
\* [base, base+size) ends in the fatal-termination hook: no access of a checked
\* build touches a host byte outside the guest buffer.
C7_CheckedAccessStaysInBuffer ==
    (checked /\ last.oob /\ last.enc \in {"LDR_imm", "STR_imm", "LDR_reg", "STR_reg"})
        => last.out = "fatal"

\* ------------------------------------------------------------ compare and test: C11
\* the machine variables, which a helper called on its own leaves alone
MachineUnchanged ==
    UNCHANGED << regs, pc, fN, fZ, fC, fV, tpidr_el0, vregs, cycles_so_far, mem, g_State,
                 checked, mode, start_cycles, target_cycles, retval, iter, executed,
                 runs, last >>

\* 32-bit operands on both sides of 0, 2^7, 2^8, 2^15, 2^16 and 2^31: the values
\* that narrower types extend to are among them
Operands32 ==
    { Trunc(v, 32) : v \in UNION { Near(b) : b \in { Zero, {7}, {8}, {15}, {16}, {31} } } }

CmpCalls ==
    { [f |-> "cmp", w |-> 64, x |-> x, y |-> y] : x \in Operands64, y \in Operands64 }
        \cup { [f |-> "cmp", w |-> 32, x |-> x, y |-> y] : x \in Operands32, y \in Operands32 }

NoConds == [f |-> "none", fN |-> FALSE, fZ |-> FALSE, fC |-> FALSE, fV |-> FALSE,
            met |-> [c \in 0..15 |-> FALSE]]

InitCmp ==
    /\ checked = FALSE
    /\ mem = Image(<< >>)
    /\ Constructed
    /\ fin \in CmpCalls
    /\ fout = NoConds

\* CMP x, y (sub32 / sub64 with setflags) and then check_conditional of every cond
CallCmp ==
    /\ fin.f = "cmp"
    /\ fout.f = "none"
    /\ LET r == IF fin.w = 64 THEN sub64(fin.x, fin.y) ELSE sub32(fin.x, fin.y)
       IN fout' = [ f |-> "cmp", fN |-> r.fN, fZ |-> r.fZ, fC |-> r.fC, fV |-> r.fV,
                    met |-> [c \in 0..15 |-> check_conditional(r, c)] ]
    /\ fin' = fin
    /\ MachineUnchanged

NextCmp == CallCmp
SpecCmp == InitCmp /\ [][NextCmp]_vars

\* C11: after CMP a, b at width 32 or 64 the conditions are the comparisons of a and
\* b: EQ iff a = b (NE its inverse); HS, HI, LS, LO the unsigned >=, >, <=, <; GE, GT,
\* LE, LT the signed >=, >, <=, <; AL holds whatever its low bit.
C11_ConditionsAreComparisons ==
    fout.f = "cmp" =>
        LET a == fin.x
            b == fin.y
            w == fin.w
        IN /\ fout.met[0] = (a = b)
           /\ fout.met[1] = (a # b)
           /\ fout.met[2] = ULE(b, a)
           /\ fout.met[3] = ULT(a, b)
           /\ fout.met[8] = ULT(b, a)
           /\ fout.met[9] = ULE(a, b)
           /\ fout.met[10] = ~ SLT(a, b, w)
           /\ fout.met[11] = SLT(a, b, w)
           /\ fout.met[12] = SLT(b, a, w)
           /\ fout.met[13] = ~ SLT(b, a, w)
           /\ fout.met[14] /\ fout.met[15]

\* a 32-bit compare of 0x7fffffff with 0x80000000: signed greater, unsigned lower,
\* with overflow
C11_Witness ==
    /\ fout.f = "cmp" /\ fin.w = 32 /\ fin.x = Ones(31) /\ fin.y = {31}
    /\ fout.fV /\ fout.met[12] /\ fout.met[3] /\ ~ fout.met[0]

\* ------------------------------------------------------------ load/store forms: C12
\* a load/store pair word: opc in bits 31:30, V (vector) in bit 26, the form in bits
\* 24:23 (0 no-allocate, 1 post-index, 2 signed offset, 3 pre-index), L (load) in bit 22
PAIR(opc, V, variant, L, imm7, t2, n, t1) ==
    Ins({ << opc, 30 >>, << 5, 27 >>, << V, 26 >>, << variant, 23 >>, << L, 22 >>,
          << imm7, 15 >>, << t2, 10 >>, << n, 5 >>, << t1, 0 >> })

\* x1 is BaseAddr + 40, inside the data block; every form of a single and of a pair
\* access through x1 with a positive and a negative offset, and through the stack pointer
LdStPrograms ==
    { << ADRb(1, 40), i, B(0) >> :
        i \in { LDRi(3, 0, 1, 504, option) : option \in {0, 1, 3} }
              \cup { STRi(2, 0, 1, 8, option) : option \in {0, 1, 3} }
              \cup { PAIR(2, 0, variant, L, 1 + 126 * L, 3, 1, 2) : variant \in 0..3, L \in 0..1 }
              \cup { PAIR(0, 0, 3, 1, 2, 3, 1, 2), PAIR(1, 0, 3, 1, 2, 3, 1, 2),
                     PAIR(2, 0, 1, 1, 1, 31, 1, 1) }
              \cup { PAIR(2 * L, 1, variant, L, 1, 3, 1, 2) : variant \in 0..3, L \in 0..1 }
              \cup { PAIR(1, 1, 3, 1, 127, 3, 1, 2), PAIR(1, 1, 1, 0, 127, 3, 1, 2) } }
        \cup { << ADRb(1, 40), MOVZ(2, 8, 0), LDRr(3, 0, 1, 2), STRr(3, 0, 1, 2), B(0) >>,
               << PAIR(2, 0, 3, 0, 127, 3, 31, 2), PAIR(2, 0, 1, 1, 1, 3, 31, 2), B(0) >>,
               << ADRb(1, 40), PAIR(2, 1, 2, 1, 0, 3, 1, 2), PAIR(2, 1, 3, 0, 1, 3, 1, 2), B(0) >> }

InitLdSt == InitWith(LdStPrograms)
SpecLdSt == InitLdSt /\ [][Next]_vars

\* C12: a load or store with base register n and offset off accesses x[n] and then
\* sets x[n] to x[n]+off when post-indexed, sets x[n] to x[n]+off and accesses the new
\* x[n] when pre-indexed, and in every form without writeback accesses x[n]+off and
\* leaves x[n] as it was (a load into its own base register apart).
C12_AddressingForms ==
    (last.out = "break" /\ last.ea.form # "none" /\ ~ last.ea.loads_n) =>
        LET e == last.ea
            sum == Add(e.base, e.off, 64)
        IN CASE e.form = "post" -> e.addr = e.base /\ regs[e.n] = sum
             [] e.form = "pre" -> e.addr = sum /\ regs[e.n] = sum
             [] OTHER -> e.addr = sum /\ regs[e.n] = e.base

\* ------------------------------------------------------------ vector registers: C13
\* FADD, FSUB, FDIV (opcode6 10, 14, 6) and FCMP (opcode6 8, with opc << 3 as d)
FP2(opcode6, ftype, d, n, m) ==
    Ins({ << 30, 24 >>, << ftype, 22 >>, << 1, 21 >>, << m, 16 >>, << opcode6, 10 >>,
          << n, 5 >>, << d, 0 >> })
\* SCVTF <Sd|Dd>, <Wn|Xn> and SCVTF <Sd|Dd>, <Sn|Dn>
SCVTFi(sf, ftype, d, n) ==
    Ins({ << 30 + 128 * sf, 24 >>, << ftype, 22 >>, << 1, 21 >>, << 2, 16 >>, << n, 5 >>, << d, 0 >> })
SCVTFv(sz, d, n) == Ins({ << 94, 24 >>, << sz, 22 >>, << 2166, 10 >>, << n, 5 >>, << d, 0 >> })
\* MOVI (op29 = 0, and op29 = 1 with cmode 14) and MVNI (op29 = 1) of imm8
MODIMM(Q, op29, cmode, imm8, d) ==
    Ins({ << Q, 30 >>, << op29, 29 >>, << 15, 24 >>, << imm8 \div 32, 16 >>, << cmode, 12 >>,
          << 1, 10 >>, << imm8 % 32, 5 >>, << d, 0 >> })

\* ldp q2, q3, [x1] loads the data block into v2 and zeroes into v3; then one
\* instruction that writes a scalar or a 64-bit vector to v2
VecPrograms ==
    { << ADRb(1, 32), PAIR(2, 1, 2, 1, 0, 3, 1, 2), i, B(0) >> :
        i \in { FP2(opcode6, ftype, 2, 2, 3) : opcode6 \in {10, 14}, ftype \in 0..1 }
              \cup { FP2(6, ftype, 2, 3, 2) : ftype \in 0..1 }
              \cup { FP2(10, 3, 2, 2, 3), FP2(6, 0, 2, 2, 3) }
              \cup { SCVTFv(sz, 2, n) : sz \in 0..1, n \in 2..3 }
              \cup { SCVTFi(0, 0, 2, 31), SCVTFi(1, 1, 2, 1), SCVTFi(0, 2, 2, 1) }
              \cup { MODIMM(Q, op29, cmode, 129, 2) :
                        Q \in 0..1, op29 \in 0..1, cmode \in {0, 8, 12, 14} } }

InitVec == InitWith(VecPrograms)
SpecVec == InitVec /\ [][Next]_vars

\* C13: an instruction that writes fewer than 16 bytes to a vector register (scalar
\* FADD, FSUB, FDIV, scalar SCVTF, the 64-bit forms of MOVI and MVNI) leaves the
\* remaining high bytes of the register zero.
C13_NarrowVectorWriteZeroesHighBytes ==
    (last.out = "break" /\ last.vlen \in 1..15)
        => vregs[last.vd] \ Ones(8 * last.vlen) = Zero

\* ------------------------------------------------------------ supervisor call: C14
\* C14: an SVC calls the supervisor hook exactly once within its own iteration and
\* is retired as one cycle with pc at its address + 4; every instruction is fetched
\* at pc and nothing but an iteration of the loop moves pc, so the next instruction
\* executed after the hook returns is the one at the address of the SVC + 4.
C14_SvcCallsHookOnceAndResumesAfterIt ==
    /\ [] ((last.enc = "SVC" /\ Alive(last))
             => /\ last.out = "break"
                /\ last.svcs = 1
                /\ pc = Add(last.pre_pc, {2}, 64)
                /\ cycles_so_far = last.pre_cycles + 1)
    /\ [][ IF iter' = iter + 1
           THEN last'.pre_pc = pc /\ last'.svcs = (IF last'.enc = "SVC" THEN 1 ELSE 0)
           ELSE pc' = pc ]_vars

\* the hook has returned without asking for the end of the emulation, and the
\* instruction after the SVC has been executed
C14_Witness ==
    /\ last.out = "break" /\ last.enc # "SVC"
    /\ last.pre_pc = Add(BaseAddr, {2}, 64)
    /\ get_bits(FromNat(mem[3]), 0, 8) = FromNat(212)
    /\ cycles_so_far = 2 /\ runs = 1

\* ------------------------------------------------------------ indirect branches: C15
\* x1 is BaseAddr + 8 .. BaseAddr + 12, then a branch through x1
BranchPrograms ==
    { << ADRb(1, off), j, NOP, NOP, B(0) >> :
        off \in 8..12, j \in { BR(1), BLR(1), RET(1) } }

InitBranch == InitWith(BranchPrograms)
SpecBranch == InitBranch /\ [][Next]_vars

\* C15: pc is 4-byte aligned at every instruction boundary: no instruction is
\* fetched from a pc whose low two bits are not zero, whatever value BR, BLR and RET
\* find in their register.
C15_PcIsAligned ==
    last.fetched => Trunc(last.pre_pc, 2) = Zero

\* ------------------------------------------------------------ logical immediates: C16
\* the 13-bit field N:immr:imms
Field(N, immr, imms) == Shl(FromNat(N), 12, 13) \cup Shl(FromNat(immr), 6, 13) \cup FromNat(imms)

\* log2 of the element size a field names: 6 when N is set, else the position of the
\* highest zero bit of imms (0 when imms is all ones, which names no element)
ElementLen(N, imms) ==
    IF N = 1 THEN 6
    ELSE IF imms = 63 THEN 0
    ELSE MaxOf({ i \in 0..5 : i \notin FromNat(imms) })

\* the fields that are a logical immediate at width w: an element of 2 bits at least
\* and w bits at most that is not all ones
ValidLogicalImmediates(w) ==
    { v \in { Field(N, immr, imms) : N \in 0..1, immr \in 0..63, imms \in 0..63 } :
        LET N == ToNat(get_bits(v, 12, 1))
            imms == ToNat(get_bits(v, 0, 6))
            len == ElementLen(N, imms)
        IN len >= 1 /\ Pow2(len) <= w /\ imms % Pow2(len) # Pow2(len) - 1 }

\* the reference DecodeBitMasks: bit i of the mask is bit (i + R) mod esize of an
\* element whose low S + 1 bits are set
DecodeBitMasks(N, immr, imms, w) ==
    LET esize == Pow2(ElementLen(N, imms))
    IN { i \in 0..(w - 1) : ((i % esize) + (immr % esize)) % esize <= imms % esize }

\* the field that encodes a mask: the smallest element size the mask repeats with,
\* the number of ones of the element less one, and the rotation that makes it
EncodeBitMask(mask, w) ==
    LET esize == CHOOSE e \in {2, 4, 8, 16, 32, 64} :
                    /\ e <= w
                    /\ \A i \in 0..(w - 1 - e) : (i \in mask) = ((i + e) \in mask)
                    /\ \A h \in {2, 4, 8, 16, 32} :
                          (h < e) => \E i \in 0..(w - 1 - h) : (i \in mask) # ((i + h) \in mask)
        S == Cardinality(Trunc(mask, esize)) - 1
        R == CHOOSE r \in 0..(esize - 1) :
                { i \in 0..(esize - 1) : (i + r) % esize <= S } = Trunc(mask, esize)
    IN Field(IF esize = 64 THEN 1 ELSE 0, R, ((64 - 2 * esize) % 64) + S)

\* the calls of decode_logical_immediate: every valid field at both widths
DecodeCalls ==
    UNION { { [f |-> "dli", val |-> v, w |-> w] : v \in ValidLogicalImmediates(w) } : w \in {32, 64} }

CallDecode ==
    /\ fin.f = "dli"
    /\ fout.f = "none"
    /\ fout' = [f |-> "dli", mask |-> decode_logical_immediate(fin.val, fin.w)]
    /\ fin' = fin
    /\ MachineUnchanged

\* the fields of the call
fin_N == ToNat(get_bits(fin.val, 12, 1))
fin_immr == ToNat(get_bits(fin.val, 6, 6))
fin_imms == ToNat(get_bits(fin.val, 0, 6))

\* C16 as stated: for every valid field at width 32 or 64 the decoded mask is that
\* of DecodeBitMasks, and re-encoding the mask yields the field.
C16_DecodeThenEncodeIsIdentity ==
    fout.f = "dli" =>
        /\ fout.mask = DecodeBitMasks(fin_N, fin_immr, fin_imms, fin.w)
        /\ EncodeBitMask(fout.mask, fin.w) = fin.val

\* C16: for every valid field at width 32 or 64 the decoded mask is that of
\* DecodeBitMasks, and re-encoding the mask yields the field with immr reduced
\* modulo the element size (the field itself when immr is below the element size).
C16_DecodeIsDecodeBitMasks ==
    fout.f = "dli" =>
        /\ fout.mask = DecodeBitMasks(fin_N, fin_immr, fin_imms, fin.w)
        /\ EncodeBitMask(fout.mask, fin.w)
             = Field(fin_N, fin_immr % Pow2(ElementLen(fin_N, fin_imms)), fin_imms)

\* N = 0, immr = 33, imms = 3 at width 64: four ones rotated right by one in each
\* 32-bit element, 0x8000000780000007
C16_Witness ==
    /\ fout.f = "dli" /\ fin.w = 64 /\ fin.val = Field(0, 33, 3)
    /\ fout.mask = {0, 1, 2, 31, 32, 33, 34, 63}

\* ------------------------------------------------------------ bitfield moves: C17
BFMx(hi8, N, immr, imms, n, d) ==
    Ins({ << hi8, 24 >>, << N, 22 >>, << immr, 16 >>, << imms, 10 >>, << n, 5 >>, << d, 0 >> })

\* x1 = 0xffffffffffffa5a5 is the source, x2 = x3 = 0xfffffffff00fffff the destination and
\* a copy of it, then one bitfield move x2 <- x1: sign extensions, extracts, inserts at a
\* non-zero position and inserts that end at the top bit, at both widths
BfmPairs ==
    { << 64, 0, 7 >>, << 64, 4, 11 >>, << 64, 56, 7 >>, << 64, 32, 31 >>, << 64, 0, 63 >>,
      << 32, 0, 7 >>, << 32, 28, 3 >>, << 32, 16, 15 >> }
BfmPrograms ==
    { << MOVN(1, 23130, 0), MOVN(2, 4080, 1), MOVN(3, 4080, 1),
         BFMx(k + (IF p[1] = 64 THEN 128 ELSE 0), IF p[1] = 64 THEN 1 ELSE 0, p[2], p[3], 1, 2),
         B(0) >> : k \in {19, 51, 83}, p \in BfmPairs }

InitBfm == InitWith(BfmPrograms)
SpecBfm == InitBfm /\ [][Next]_vars

\* the architected result of a bitfield move of width regsize: the window of src is
\* bits immr..imms placed at bit 0 when imms >= immr, and bits 0..imms placed at bit
\* regsize - immr otherwise; outside the window SBFM has the highest copied bit above and
\* 0 below, BFM has the bits of dst, UBFM has 0
BitfieldMove(name, regsize, immr, imms, src, dst) ==
    LET len == IF imms >= immr THEN imms - immr + 1 ELSE imms + 1
        from == IF imms >= immr THEN immr ELSE 0
        lo == IF imms >= immr THEN 0 ELSE regsize - immr
        window == { lo + i : i \in { j \in 0..(len - 1) : from + j \in src } }
        above == (lo + len)..(regsize - 1)
        outside == (0..(regsize - 1)) \ (lo..(lo + len - 1))
    IN CASE name = "SBFM" -> window \cup (IF lo + len - 1 \in window THEN above ELSE {})
         [] name = "BFM" -> window \cup (dst \cap outside)
         [] OTHER -> window

\* C17: whenever a valid SBFM, BFM or UBFM x2 <- x1 has been executed (x3 holding what x2
\* held before it), x2 holds the window of x1 at the architected position, with the
\* highest copied bit above it for SBFM, the old bits of x2 outside it for BFM, and 0
\* outside it for UBFM.
C17_BitfieldMoves ==
    (last.out = "break" /\ last.enc \in {"SBFM", "BFM", "UBFM"}) =>
        regs[2] = BitfieldMove(last.enc, IF opbits(last.op, 31, 1) = 1 THEN 64 ELSE 32,
                               opbits(last.op, 16, 6), opbits(last.op, 10, 6), regs[1], regs[3])

\* ------------------------------------------------------------ vector immediates: C18
\* the calls of adv_simd_expand_imm: both values of op, every cmode, every imm8
Imm8s == { FromNat(k) : k \in 0..255 }
ExpandCalls ==
    { [f |-> "expand", operand |-> o, cmode |-> c, imm8 |-> i] :
        o \in 0..1, c \in 0..15, i \in Imm8s }

CallExpand ==
    /\ fin.f = "expand"
    /\ fout.f = "none"
    /\ fout' = [f |-> "expand", imm64 |-> adv_simd_expand_imm(fin.operand, fin.cmode, fin.imm8)]
    /\ fin' = fin
    /\ MachineUnchanged

\* AdvSIMDExpandImm for cmode<3:1> = 110: Replicate(Zeros(16):imm8:Ones(8), 2) when
\* cmode<0> = 0 and Replicate(Zeros(8):imm8:Ones(16), 2) when cmode<0> = 1
ShiftingOnes(cmode0, imm8) ==
    LET fill == IF cmode0 = 0 THEN 8 ELSE 16
        element == Shl(imm8, fill, 32) \cup Ones(fill)
    IN element \cup Shl(element, 32, 64)

\* C18: for cmode 12 and 13 the result of adv_simd_expand_imm has, in each 32-bit
\* element, imm8 in byte 1 above 0xff in byte 0 (cmode 12), and imm8 in byte 2 above
\* 0xff in bytes 0 and 1 (cmode 13).
C18_ShiftingOnesElements ==
    (fout.f = "expand" /\ fin.cmode \in {12, 13}) =>
        fout.imm64 = ShiftingOnes(fin.cmode % 2, fin.imm8)

\* ------------------------------------------------------------ FCMP: C19
\* FCMP <Sn|Dn>, <Sm|Dm> (opc 0) and FCMP <Sn|Dn>, #0.0 (opc 1, m = 0)
FCMP(ftype, n, m, opc) == FP2(8, ftype, opc * 8, n, m)

\* operands of a format with ebits exponent bits and mbits fraction bits: zeroes,
\* denormals, numbers around 1.0, infinities, quiet and signalling NaNs, of both signs
FPOperands(ebits, mbits) ==
    { (IF sg THEN {ebits + mbits} ELSE Zero) \cup Shl(e, mbits, 64) \cup m :
        sg \in BOOLEAN, e \in { Zero, Ones(ebits - 1), Ones(ebits) }, m \in { Zero, {0}, {mbits - 1} } }

FcmpCalls ==
    UNION { { [f |-> "fcmp", ftype |-> t, opc |-> 0, a |-> a, b |-> b] :
                a \in FPOperands(8 + 3 * t, 23 + 29 * t), b \in FPOperands(8 + 3 * t, 23 + 29 * t) }
            \cup { [f |-> "fcmp", ftype |-> t, opc |-> 1, a |-> a, b |-> Zero] :
                     a \in FPOperands(8 + 3 * t, 23 + 29 * t) } : t \in 0..1 }

\* one FCMP executed by the handler with the operands in v1 and v2
CallFcmp ==
    /\ fin.f = "fcmp"
    /\ fout.f = "none"
    /\ LET op == FCMP(fin.ftype, 1, IF fin.opc = 0 THEN 2 ELSE 0, fin.opc)
           s == [Machine EXCEPT !.vregs[1] = fin.a, !.vregs[2] = fin.b]
       IN \E o \in case_1e(s, op, 30) :
            fout' = [f |-> "fcmp", out |-> o.out, fN |-> o.fN, fZ |-> o.fZ, fC |-> o.fC, fV |-> o.fV]
    /\ fin' = fin
    /\ MachineUnchanged

\* FPCompare of the architecture as << N, Z, C, V >>: unordered when an operand is a
\* NaN, else equal (both zero, or the same number), less, or greater
FPCompare(a, b, ebits, mbits) ==
    LET w == 1 + ebits + mbits
        neg(v) == (w - 1) \in v
        mag(v) == Trunc(v, w - 1)
        nan(v) == ULT(Shl(Ones(ebits), mbits, 64), mag(v))
        zero(v) == mag(v) = Zero
        less(u, v) ==
            CASE zero(u) /\ zero(v) -> FALSE
              [] neg(u) /\ ~ neg(v) -> TRUE
              [] ~ neg(u) /\ neg(v) -> FALSE
              [] neg(u) -> ULT(mag(v), mag(u))
              [] OTHER -> ULT(mag(u), mag(v))
    IN CASE nan(a) \/ nan(b) -> << FALSE, FALSE, TRUE, TRUE >>
         [] less(a, b) -> << TRUE, FALSE, FALSE, FALSE >>
         [] less(b, a) -> << FALSE, FALSE, TRUE, FALSE >>
         [] OTHER -> << FALSE, TRUE, TRUE, FALSE >>

\* C19: after FCMP of any two operands (N, Z, C, V) is (0, 0, 1, 1) exactly when an
\* operand is a NaN, (0, 1, 1, 0) when they compare equal, two infinities of one sign
\* included, (1, 0, 0, 0) when the first is less and (0, 0, 1, 0) when it is greater.
C19_FcmpFlags ==
    fout.f = "fcmp" =>
        /\ fout.out = "break"
        /\ << fout.fN, fout.fZ, fout.fC, fout.fV >>
             = FPCompare(fin.a, fin.b, 8 + 3 * fin.ftype, 23 + 29 * fin.ftype)

\* ------------------------------------------------------------ ZIP and UZP: C20
\* ZIP1, ZIP2 (opcode 3, 7) and UZP1, UZP2 (opcode 1, 5) <Vd>.<T>, <Vn>.<T>, <Vm>.<T>
PERM(Q, size, opcode, d, n, m) ==
    Ins({ << Q, 30 >>, << 14, 24 >>, << size, 22 >>, << m, 16 >>, << opcode, 12 >>, << 2, 10 >>,
          << n, 5 >>, << d, 0 >> })

\* 16 bytes, byte i of the vector being b[i]
Bytes(b) == UNION { Shl(FromNat(b[i]), 8 * i, 128) : i \in 0..15 }
Vectors ==
    { Bytes([i \in 0..15 |-> i + 1]), Bytes([i \in 0..15 |-> 240 - 16 * i + (i % 3)]),
      Bytes([i \in 0..15 |-> (37 * i + 129) % 256]), Ones(128) }

\* the arrangements 8B, 16B, 4H, 8H, 2S, 4S, 2D as << Q, size >>
Arrangements == { << 0, 0 >>, << 1, 0 >>, << 0, 1 >>, << 1, 1 >>, << 0, 2 >>, << 1, 2 >>, << 1, 3 >> }

ZipCalls ==
    { [f |-> "zip", Q |-> T[1], size |-> T[2], a |-> Trunc(a, 64 * Pow2(T[1])),
       b |-> Trunc(b, 64 * Pow2(T[1]))] : T \in Arrangements, a \in Vectors, b \in Vectors }

\* v1 = a, v2 = b, then ZIP1 v3, v1, v2 ; ZIP2 v4, v1, v2 ; UZP1 v5, v3, v4 ; UZP2 v6, v3, v4
\* executed by the handler one after the other
CallZip ==
    /\ fin.f = "zip"
    /\ fout.f = "none"
    /\ LET I(opcode, d, n, m) == PERM(fin.Q, fin.size, opcode, d, n, m)
           Do(S, op) == UNION { IF Alive(s) THEN case_0e(s, op, opbits(op, 24, 8)) ELSE { s } : s \in S }
           s0 == [Machine EXCEPT !.vregs[1] = fin.a, !.vregs[2] = fin.b]
           ends == Do(Do(Do(Do({ s0 }, I(3, 3, 1, 2)), I(7, 4, 1, 2)), I(1, 5, 3, 4)), I(5, 6, 3, 4))
       IN \E o \in ends :
            fout' = [f |-> "zip", out |-> o.out, enc |-> o.enc, zip1 |-> o.vregs[3],
                     zip2 |-> o.vregs[4], uzp1 |-> o.vregs[5], uzp2 |-> o.vregs[6]]
    /\ fin' = fin
    /\ MachineUnchanged

\* C20: for vectors a and b of any arrangement, UZP1 of the pair (ZIP1(a, b), ZIP2(a, b))
\* is a and UZP2 of that pair is b.
C20_UnzipOfZipIsIdentity ==
    fout.f = "zip" =>
        /\ fout.out = "break" /\ fout.enc = "UZP2"
        /\ fout.uzp1 = fin.a
        /\ fout.uzp2 = fin.b

\* 8H with a = bytes 1..16: ZIP1 interleaves the low four halfwords of a with those of b
C20_Witness ==
    /\ fout.f = "zip" /\ fin.Q = 1 /\ fin.size = 1
    /\ fin.a = Bytes([i \in 0..15 |-> i + 1]) /\ fin.b = Ones(128)
    /\ fout.zip1 = UNION { Shl(get_bits(fin.a, 16 * p, 16), 32 * p, 128) \cup Shl(Ones(16), 32 * p + 16, 128)
                            : p \in 0..3 }
    /\ fout.zip2 # fout.zip1
    /\ fout.uzp1 = fin.a /\ fout.uzp2 = fin.b

\* ------------------------------------------------------------ tracing: C21
\* the loop programs that branch, call, return, trap to the host and write registers,
\* with the host switching the tracing on and off at any time
TracePrograms ==
    { << Bcond(0, 2), TBZ(0, 3, 2), NOP, B(0) >>,
      << ADR(1, 3), BLR(1), NOP, RET(30) >>,
      << BL(2), B(0), RET(30) >>,
      << SVC, NOP, B(0) >>,
      << MOVZ(0, 1, 0), CBNZ(0, 2), NOP, B(0) >>,
      << BR_unallocated >> }

InitTrace == InitWith(TracePrograms)
SpecTrace == InitTrace /\ [][NextTraced]_vars

LDRSi(size, opc, t, n, imm9, option) ==
    Ins({ << 56 + 64 * size, 24 >>, << opc, 22 >>, << imm9, 12 >>, << option, 10 >>,
          << n, 5 >>, << t, 0 >> })
LDRSr(size, opc, t, n, m) ==
    Ins({ << 56 + 64 * size, 24 >>, << opc, 22 >>, << 1, 21 >>, << m, 16 >>, << 3, 13 >>,
          << 2, 10 >>, << n, 5 >>, << t, 0 >> })
LDRSu(size, opc, t, n, imm12) ==
    Ins({ << 57 + 64 * size, 24 >>, << opc, 22 >>, << imm12, 10 >>, << n, 5 >>, << t, 0 >> })

\* x1 = the address of the data bytes a0 a1 a2 a3 .., then one load of them to x0
SignedLoads ==
    UNION { { LDRSi(k[1], k[2], 0, 1, 0, 0), LDRSi(k[1], k[2], 0, 1, 0, 1),
              LDRSi(k[1], k[2], 0, 1, 0, 3), LDRSr(k[1], k[2], 0, 1, 2), LDRSu(k[1], k[2], 0, 1, 0) }
            : k \in { << 0, 2 >>, << 0, 3 >>, << 1, 2 >>, << 1, 3 >>, << 2, 2 >> } }
SxPrograms == { << ADRb(1, 32), i, B(0) >> : i \in SignedLoads }

InitSx == InitWith(SxPrograms)
SpecSx == InitSx /\ [][Next]_vars

\* C22: after a sign-extending load to x0 of the 1, 2 or 4 bytes at x1, x0 holds their
\* value sign-extended to 64 bits when the encoding names an X destination (bit 22
\* clear), and sign-extended to 32 bits with bits 63..32 zero when it names a W
\* destination (bit 22 set).
C22_SignExtendingLoads ==
    (last.out = "break" /\ last.enc \in {"LDURS", "LDRS_imm", "LDRS_reg", "LDRS_uimm"}) =>
        LET w == Pow2(opbits(last.op, 30, 2))
            v == sign_extend(ReadBytes(mem, regs[1], w, 0), 8 * w - 1)
        IN regs[0] = (IF opbits(last.op, 22, 1) = 0 THEN v ELSE Trunc(v, 32))

\* ------------------------------------------------------------ the request at the return: C23
\* C23: an end-emulation request raised during a run() call is consumed by that call:
\* whenever run() returns, the step in which the SVC hook sets the bit while retiring
\* the last budgeted instruction included, the end-emulation bit is clear.
C23_RequestConsumedByTheCall ==
    [][ (mode = "running" /\ mode' = "idle") => ~ TestBit(g_State', stateEndEmulation) ]_vars

\* ------------------------------------------------------------ FCCMP, FCCMPE: C24
\* FCCMP (e = 0) and FCCMPE (e = 1) <Sn|Dn>, <Sm|Dm>, #<nzcv>, <cond>
FCCMP(ftype, n, m, cond, nzcv, e) ==
    Ins({ << 30, 24 >>, << ftype, 22 >>, << 1, 21 >>, << m, 16 >>, << cond, 12 >>, << 1, 10 >>,
          << n, 5 >>, << e, 4 >>, << nzcv, 0 >> })

\* 0.0 < 1.0, 1.0 = 1.0, 1.0 > 0.0 and a NaN with 1.0
FccmpPairs(ebits, mbits) ==
    LET one == Shl(Ones(ebits - 1), mbits, 64)
        nan == Shl(Ones(ebits), mbits, 64) \cup {mbits - 1}
    IN { << Zero, one >>, << one, one >>, << one, Zero >>, << nan, one >> }

FccmpCalls ==
    UNION { { [f |-> "fccmp", ftype |-> t, e |-> e, cond |-> c, nzcv |-> i, a |-> p[1], b |-> p[2],
               N |-> fl[1], Z |-> fl[2], C |-> fl[3], V |-> fl[4]] :
                e \in 0..1, c \in 0..15, i \in {0, 6, 15}, p \in FccmpPairs(8 + 3 * t, 23 + 29 * t),
                fl \in BOOLEAN \X BOOLEAN \X BOOLEAN \X BOOLEAN } : t \in 0..1 }

\* one FCCMP or FCCMPE executed by the handler with the operands in v1 and v2 and the
\* flags N, Z, C, V
CallFccmp ==
    /\ fin.f = "fccmp"
    /\ fout.f = "none"
    /\ LET op == FCCMP(fin.ftype, 1, 2, fin.cond, fin.nzcv, fin.e)
           s == [Machine EXCEPT !.vregs[1] = fin.a, !.vregs[2] = fin.b,
                                !.fN = fin.N, !.fZ = fin.Z, !.fC = fin.C, !.fV = fin.V]
       IN \E o \in case_1e(s, op, 30) :
            fout' = [f |-> "fccmp", out |-> o.out, enc |-> o.enc,
                     fN |-> o.fN, fZ |-> o.fZ, fC |-> o.fC, fV |-> o.fV]
    /\ fin' = fin
    /\ MachineUnchanged

InitFccmp ==
    /\ checked = FALSE
    /\ mem = Image(<< >>)
    /\ Constructed
    /\ fin \in FccmpCalls
    /\ fout = [f |-> "none"]

NextFccmp == CallFccmp
SpecFccmp == InitFccmp /\ [][NextFccmp]_vars

\* C24: FCCMP and FCCMPE evaluate the condition on the flags as they were before the
\* instruction: when it held, N, Z, C, V become the flags of the comparison of the two
\* operands, and when it did not they become the nzcv field of the instruction.
C24_ConditionOnFlagsBefore ==
    fout.f = "fccmp" =>
        LET before == [fN |-> fin.N, fZ |-> fin.Z, fC |-> fin.C, fV |-> fin.V]
            after == << fout.fN, fout.fZ, fout.fC, fout.fV >>
        IN /\ fout.out = "break"
           /\ fout.enc = (IF fin.e = 1 THEN "FCCMPE" ELSE "FCCMP")
           /\ after = (IF check_conditional(before, fin.cond)
                       THEN FPCompare(fin.a, fin.b, 8 + 3 * fin.ftype, 23 + 29 * fin.ftype)
                       ELSE << (fin.nzcv \div 8) % 2 = 1, (fin.nzcv \div 4) % 2 = 1,
                               (fin.nzcv \div 2) % 2 = 1, fin.nzcv % 2 = 1 >>)

\* ------------------------------------------------------------ CCMN: C25
\* CCMN <Wn|Xn>, <Wm|Xm>, #<nzcv>, <cond> (o2 = 0) and CCMN <Wn|Xn>, #<imm5>, .. (o2 = 2)
CCMN(sf, n, m, cond, nzcv, o2) ==
    Ins({ << 58 + 128 * sf, 24 >>, << 2, 21 >>, << m, 16 >>, << cond, 12 >>, << o2, 10 >>,
          << n, 5 >>, << nzcv, 0 >> })

CcmnCalls ==
    { [f |-> "ccmn", w |-> 64, x |-> x, y |-> y] : x \in Operands64, y \in Operands64 }
        \cup { [f |-> "ccmn", w |-> 32, x |-> x, y |-> y] : x \in Operands32, y \in Operands32 }

\* one CCMN x1, x2, #0, AL executed by the handler
CallCcmn ==
    /\ fin.f = "ccmn"
    /\ fout.f = "none"
    /\ LET sf == IF fin.w = 64 THEN 1 ELSE 0
           s == [Machine EXCEPT !.regs[1] = fin.x, !.regs[2] = fin.y]
       IN \E o \in case_3a(s, CCMN(sf, 1, 2, 14, 0, 0), 58 + 128 * sf) :
            fout' = [f |-> "ccmn", out |-> o.out, fN |-> o.fN, fZ |-> o.fZ, fC |-> o.fC, fV |-> o.fV]
    /\ fin' = fin
    /\ MachineUnchanged

InitCcmn ==
    /\ checked = FALSE
    /\ mem = Image(<< >>)
    /\ Constructed
    /\ fin \in CcmnCalls
    /\ fout = [f |-> "none"]

NextCcmn == CallCcmn
SpecCcmn == InitCcmn /\ [][NextCcmn]_vars

\* the flags of the w-bit addition x + y with no carry in, as << N, Z, C, V >>
AdditionFlags(x, y, w) ==
    LET sum == AddWide(Trunc(x, w), Trunc(y, w), FALSE, w)
        result == Trunc(sum, w)
        neg(v) == (w - 1) \in v
    IN << neg(result), result = Zero, sum # result,
          neg(x) = neg(y) /\ neg(result) # neg(x) >>

\* C25: when its condition holds, CCMN Rn, op2 sets N, Z, C and V to the flags of the
\* addition Rn + op2 with no carry in, for every operand pair at width 32 and 64,
\* op2 = 0 and op2 = the most negative value included.
C25_CcmnFlagsOfTheSum ==
    fout.f = "ccmn" =>
        /\ fout.out = "break"
        /\ << fout.fN, fout.fZ, fout.fC, fout.fV >> = AdditionFlags(fin.x, fin.y, fin.w)

\* ------------------------------------------------------------ DC ZVA and DCZID_EL0: C26
MRS_DCZID(t) == W32(54587, 224 + t)

\* x4 = DCZID_EL0, x1 = an address in the first 64 bytes of the buffer, a non-zero
\* byte stored at offset 64, then DC ZVA x1
ZvaPrograms ==
    { << MRS_DCZID(4), ADRb(1, off), STRi(3, 4, 1, 64 - off, 0), DC_ZVA(1), B(0) >> :
        off \in {0, 32, 40} }

InitZva == InitWith(ZvaPrograms)
SpecZva == InitZva /\ [][Next]_vars

\* C26: DC ZVA zeroes exactly the block whose size DCZID_EL0 (read to x4) reports: the
\* 4 << BS bytes, naturally aligned, that contain x[t], and no byte outside it.
C26_ZvaZeroesItsBlock ==
    [][ (iter' = iter + 1 /\ last'.enc = "DC_ZVA" /\ last'.out = "break") =>
          LET size == 4 * Pow2(ToNat(Trunc(regs[4], 4)))
              at == ToNat(getoffset(regs[opbits(last'.op, 0, 5)]))
              first == at - (at % size)
          IN \A o \in DOMAIN mem :
                mem'[o] = (IF o >= first /\ o < first + size THEN 0 ELSE mem[o]) ]_vars

\* ------------------------------------------------------------ CMGT: C27
\* CMGT <Vd>.<T>, <Vn>.<T>, <Vm>.<T>
CMGT(Q, size, d, n, m) ==
    Ins({ << Q, 30 >>, << 14, 24 >>, << size, 22 >>, << 1, 21 >>, << m, 16 >>, << 6, 11 >>,
          << 1, 10 >>, << n, 5 >>, << d, 0 >> })

CmgtCalls ==
    { [f |-> "cmgt", Q |-> T[1], size |-> T[2], a |-> a, b |-> b] :
        T \in Arrangements, a \in Vectors, b \in Vectors }

\* v1 = a, v2 = b, every byte of v3 = 0x55, then CMGT v3, v1, v2 executed by the handler
CallCmgt ==
    /\ fin.f = "cmgt"
    /\ fout.f = "none"
    /\ LET s == [Machine EXCEPT !.vregs[1] = fin.a, !.vregs[2] = fin.b,
                                !.vregs[3] = Bytes([i \in 0..15 |-> 85])]
       IN \E o \in case_0e(s, CMGT(fin.Q, fin.size, 3, 1, 2), 14 + 64 * fin.Q) :
            fout' = [f |-> "cmgt", out |-> o.out, enc |-> o.enc, vd |-> o.vregs[3]]
    /\ fin' = fin
    /\ MachineUnchanged

InitCmgt ==
    /\ checked = FALSE
    /\ mem = Image(<< >>)
    /\ Constructed
    /\ fin \in CmgtCalls
    /\ fout = [f |-> "none"]

NextCmgt == CallCmgt
SpecCmgt == InitCmgt /\ [][NextCmgt]_vars

\* C27: after CMGT every lane e of Vd, 0 <= e < elements, is all ones if lane e of Vn
\* is greater than lane e of Vm, both read as signed integers of the element size, and
\* all zeros otherwise.
C27_CmgtEveryLaneSigned ==
    fout.f = "cmgt" =>
        LET esize == 8 * Pow2(fin.size)
            elements == (64 * Pow2(fin.Q)) \div esize
            lane(v, e) == get_bits(v, e * esize, esize)
        IN /\ fout.out = "break" /\ fout.enc = "CMGT"
           /\ \A e \in 0..(elements - 1) :
                 lane(fout.vd, e) = (IF SLT(lane(fin.b, e), lane(fin.a, e), esize)
                                     THEN Ones(esize) ELSE Zero)

\* ------------------------------------------------------------ INS (element): C28
\* INS <Vd>.<Ts>[i], <Vn>.<Ts>[j] for elements of 2^k bytes
INSe(k, i, j, d, n) ==
    Ins({ << 110, 24 >>, << (2 * i + 1) * Pow2(k), 16 >>, << j * Pow2(k), 11 >>, << 1, 10 >>,
          << n, 5 >>, << d, 0 >> })

\* every element size B, H, S, D and every pair of indexes
InsCalls ==
    UNION { { [f |-> "ins", k |-> k, i |-> i, j |-> j] :
                i \in 0..((16 \div Pow2(k)) - 1), j \in 0..((16 \div Pow2(k)) - 1) } : k \in 0..3 }

\* byte b of v1 is b + 1 and byte b of v3 is 128 + b
InsSource == Bytes([b \in 0..15 |-> b + 1])
InsTarget == Bytes([b \in 0..15 |-> 128 + b])

\* one INS v3.T[i], v1.T[j] executed by the handler
CallIns ==
    /\ fin.f = "ins"
    /\ fout.f = "none"
    /\ LET s == [Machine EXCEPT !.vregs[1] = InsSource, !.vregs[3] = InsTarget]
       IN \E o \in case_2e(s, INSe(fin.k, fin.i, fin.j, 3, 1), 110) :
            fout' = [f |-> "ins", out |-> o.out, enc |-> o.enc, vd |-> o.vregs[3]]
    /\ fin' = fin
    /\ MachineUnchanged

InitIns ==
    /\ checked = FALSE
    /\ mem = Image(<< >>)
    /\ Constructed
    /\ fin \in InsCalls
    /\ fout = [f |-> "none"]

NextIns == CallIns
SpecIns == InitIns /\ [][NextIns]_vars

\* C28: INS Vd.T[i], Vn.T[j] copies element j of Vn into element i of Vd and leaves
\* every other byte of Vd unchanged, for the element sizes B, H, S, D and every pair of
\* indexes (i, j).
C28_InsCopiesOneElement ==
    fout.f = "ins" =>
        LET w == Pow2(fin.k)
        IN /\ fout.out = "break" /\ fout.enc = "INS_element"
           /\ \A b \in 0..15 :
                 get_bits(fout.vd, 8 * b, 8) =
                     (IF b \div w = fin.i THEN get_bits(InsSource, 8 * (fin.j * w + (b % w)), 8)
                      ELSE get_bits(InsTarget, 8 * b, 8))

\* ------------------------------------------------------------ logical immediates: C29
\* EOR <Wd|WSP>, <Wn>, #<imm> (sf = 0) and EOR <Xd|SP>, <Xn>, #<imm> (sf = 1) with the
\* 13-bit field N:immr:imms
EORi(sf, field, n, d) ==
    Ins({ << 82 + 128 * sf, 24 >>, << n, 5 >>, << d, 0 >> }) \cup Shl(field, 10, 32)

\* every 13-bit field at both widths, the reserved ones included
EorCalls ==
    { [f |-> "eor", sf |-> sf, val |-> Field(N, immr, imms)] :
        sf \in 0..1, N \in 0..1, immr \in {0, 1, 31, 32, 63}, imms \in 0..63 }

\* one EOR x0, x1, #imm executed by the handler
CallEor ==
    /\ fin.f = "eor"
    /\ fout.f = "none"
    /\ \E o \in case_52(Machine, EORi(fin.sf, fin.val, 1, 0), 82 + 128 * fin.sf) :
          fout' = [f |-> "eor", out |-> o.out, enc |-> o.enc]
    /\ fin' = fin
    /\ MachineUnchanged

InitEor ==
    /\ checked = FALSE
    /\ mem = Image(<< >>)
    /\ Constructed
    /\ fin \in EorCalls
    /\ fout = [f |-> "none"]

NextEor == CallEor
SpecEor == InitEor /\ [][NextEor]_vars

\* C29: a logical-immediate instruction completes, with a result or in the fatal
\* termination hook, for every 13-bit field N:immr:imms at both register widths, the
\* reserved encodings included: decode_logical_immediate never loops forever.
C29_LogicalImmediateCompletes ==
    fout.f = "eor" => (fout.enc = "EOR_imm" /\ fout.out \in {"break", "fatal"})

\* ------------------------------------------------------------ REV32: C30
\* REV32 <Xd>, <Xn>
REV32(d, n) == Ins({ << 218, 24 >>, << 6, 21 >>, << 2, 10 >>, << n, 5 >>, << d, 0 >> })

\* 32-bit words: 0, 1, 0x80000000, 0x04030201, 0xff000000, 0x00ff00ff, 0xa1b2c3d4, all ones
RevWords ==
    { Zero, {0}, {31}, FromNat(67305985), Shl(Ones(8), 24, 32), Ones(8) \cup Shl(Ones(8), 16, 32),
      Shl(FromNat(41394), 16, 32) \cup FromNat(50132), Ones(32) }
RevCalls == { [f |-> "rev32", x |-> lo \cup Shl(hi, 32, 64)] : lo \in RevWords, hi \in RevWords }

\* one REV32 x0, x1 executed by the handler
CallRev ==
    /\ fin.f = "rev32"
    /\ fout.f = "none"
    /\ \E o \in case_5a([Machine EXCEPT !.regs[1] = fin.x], REV32(0, 1), 218) :
          fout' = [f |-> "rev32", out |-> o.out, enc |-> o.enc, result |-> o.regs[0]]
    /\ fin' = fin
    /\ MachineUnchanged

InitRev ==
    /\ checked = FALSE
    /\ mem = Image(<< >>)
    /\ Constructed
    /\ fin \in RevCalls
    /\ fout = [f |-> "none"]

NextRev == CallRev
SpecRev == InitRev /\ [][NextRev]_vars

\* C30: REV32 Xd, Xn leaves in Xd, for every value of Xn, the two 32-bit words of Xn
\* each with its four bytes in the reverse order: byte p of a word of Xd is byte 3 - p
\* of the same word of Xn.
C30_Rev32ReversesEachWord ==
    fout.f = "rev32" =>
        /\ fout.out = "break" /\ fout.enc = "REV"
        /\ fout.result = { i \in 0..63 :
                             (32 * (i \div 32) + 8 * (3 - ((i \div 8) % 4)) + (i % 8)) \in fin.x }

\* ------------------------------------------------------------ helpers called on their own
\* one call of a helper with arguments fin, its result in fout
NoOutput == [f |-> "none"]

InitFn ==
    /\ checked = FALSE
    /\ mem = Image(<< >>)
    /\ Constructed
    /\ fin \in DecodeCalls \cup ExpandCalls \cup FcmpCalls \cup ZipCalls
    /\ fout = NoOutput

NextFn == CallDecode \/ CallExpand \/ CallFcmp \/ CallZip
SpecFn == InitFn /\ [][NextFn]_vars

=============================================================================
